---- MODULE Spec2Model ----
(***************************************************************************)
(* Trippino: trips, their ordered cities and the transportation legs       *)
(* between consecutive cities.  The relational tables are sets of rows,    *)
(* every route handler is a sequence of storage calls (one step per        *)
(* awaited call), and a request is served either as a whole (Spec) or      *)
(* interleaved with other requests at its awaits (SpecConc).               *)
(***************************************************************************)
EXTENDS Integers, Sequences, FiniteSets, TLC

VARIABLES db, procs, now

vars == <<db, procs, now>>

(* ------------------------------ bounds -------------------------------- *)
MaxTrips == 2
MaxCities == 3
MaxLegs == 2
MaxInFlight == 2
MaxUsers == 2
MaxSessions == 3
MaxMigrations == 3

(* --------------------------- value domains ---------------------------- *)
\* JS undefined (a key missing from the request body) and SQL NULL.
Undef == "<undefined>"
Null == "<null>"

\* s.user.id of the session getSession resolves; NoUser: getSession gave null.
NoUser == 0
Users == {1, 2}

\* String(x).trim() on the strings the requests carry.
Trim(s) ==
    CASE s = " " -> ""
      [] s = " A " -> "A"
      [] s = " x " -> "x"
      [] OTHER -> s

\* Number(x): [finite, v]; a non-numeric string gives NaN (finite = FALSE).
NumberOf(s) ==
    CASE s = "-1" -> [finite |-> TRUE, v |-> 0 - 1]
      [] s = "0" -> [finite |-> TRUE, v |-> 0]
      [] s = "1" -> [finite |-> TRUE, v |-> 1]
      [] s = "2" -> [finite |-> TRUE, v |-> 2]
      [] s = "" -> [finite |-> TRUE, v |-> 0]
      [] s = Null -> [finite |-> TRUE, v |-> 0]
      [] OTHER -> [finite |-> FALSE, v |-> 0]

\* !name || !String(name).trim()
Blank(s) == s \in {Undef, Null} \/ Trim(s) = ""

\* /^\d{4}-\d{2}-\d{2}$/.test(s) on the dates the requests carry.
IsDate(s) == s = "2025-01-01"

(* ------------------------------ storage ------------------------------- *)
\* The schema created at start-up: empty tables, foreign keys not enforced
\* (sqlite enforces them only after PRAGMA foreign_keys = ON).  migrations is
\* the table __migrations of the migration runner, applied the migrations
\* whose SQL has been executed on the database.
EmptyDb ==
    [users |-> {}, sessions |-> {}, trips |-> {}, cities |-> {}, legs |-> {},
     seq |-> [users |-> 0, sessions |-> 0, trips |-> 0, cities |-> 0, legs |-> 0],
     foreign_keys |-> FALSE, migrations |-> {}, applied |-> {}]

\* cities.sort_order INTEGER NOT NULL DEFAULT 0
DefaultSortOrder == 0

TripRows(d, t) == {x \in d.trips : x.id = t}
CityRows(d, c) == {x \in d.cities : x.id = c}
CitiesOf(d, t) == {x \in d.cities : x.trip_id = t}

\* OwnedTrip with the user_id condition lost: any user's trip is found.
AnyTrip(d, t, u) == {x \in d.trips : x.id = t}

\* SELECT id FROM trips WHERE id = ? AND user_id = ?
OwnedTrip(d, t, u) == {x \in d.trips : x.id = t /\ x.user_id = u}

\* SELECT ... FROM cities WHERE id = ? AND trip_id = ?
CityInTrip(d, c, t) == {x \in d.cities : x.id = c /\ x.trip_id = t}

(* ----------------------------- responses ------------------------------ *)
Err(code, msg) == [status |-> code, error |-> msg, id |-> 0, rows |-> {}]
Ok(code, newId, rs) == [status |-> code, error |-> "", id |-> newId, rows |-> rs]
NoRes == [status |-> 0, error |-> "", id |-> 0, rows |-> {}]
ServerError == Err(500, "server error")

\* A request being served: its position, its local variables, its response.
\* failed: a storage call the request awaited has rejected.
NewProc(r) ==
    [req |-> r, pc |-> "start", loc |-> [i |-> 0, id |-> 0, next |-> 0], res |-> NoRes,
     failed |-> FALSE]
Finish(d, p, res) == [db |-> d, p |-> [p EXCEPT !.pc = "done", !.res = res]]
Goto(d, p, pc) == [db |-> d, p |-> [p EXCEPT !.pc = pc]]

\* StorageFails with the error swallowed: the handler answers as if all went well.
StorageFailsSwallowed(d, p) ==
    [db |-> d, p |-> [p EXCEPT !.pc = "done", !.res = Ok(200, 0, {}), !.failed = TRUE]]

\* The storage call the request awaits rejects: nothing is written, and the
\* handler's catch answers 500 "server error".
StorageFails(d, p) ==
    [db |-> d, p |-> [p EXCEPT !.pc = "done", !.res = ServerError, !.failed = TRUE]]

(* ------------------------- POST /api/trips/:id/cities ------------------ *)
AppendNights(r) == IF r.nights \in {Undef, Null} THEN NumberOf("1") ELSE NumberOf(r.nights)

CleanCityNotes(notes) == IF notes # Undef /\ notes # Null /\ Trim(notes) # "" THEN notes ELSE Null

AppendCheck(d, p) ==
    LET r == p.req IN
    IF r.user = NoUser THEN Finish(d, p, Err(401, "not authenticated"))
    ELSE IF r.tripId = 0 THEN Finish(d, p, Err(400, "invalid trip id"))
    ELSE IF OwnedTrip(d, r.tripId, r.user) = {}
        THEN Finish(d, p, Err(404, "trip not found or unauthorized"))
    ELSE IF Blank(r.name)
        THEN Finish(d, p, Err(400, "city name required"))
    ELSE IF ~AppendNights(r).finite \/ AppendNights(r).v < 0
        THEN Finish(d, p, Err(400, "nights must be a non-negative number"))
    ELSE Goto(d, p, "insert")

\* AppendInsert that stores 1 + the trip's greatest sort key (0 for the first city).
AppendInsertAfterMax(d, p) ==
    LET r == p.req
        newId == d.seq.cities + 1
        keys == {c.sort_order : c \in CitiesOf(d, r.tripId)}
        key == IF keys = {} THEN 0 ELSE 1 + CHOOSE m \in keys : \A k \in keys : k <= m
        row == [id |-> newId, name |-> Trim(r.name), nights |-> AppendNights(r).v,
                notes |-> CleanCityNotes(r.notes), sort_order |-> key, trip_id |-> r.tripId]
    IN  IF d.foreign_keys /\ TripRows(d, r.tripId) = {}
        THEN Finish(d, p, ServerError)
        ELSE [db |-> [d EXCEPT !.cities = @ \cup {row}, !.seq.cities = newId],
              p |-> [p EXCEPT !.pc = "select", !.loc.id = newId]]

\* INSERT INTO cities(name, nights, notes, trip_id): sort_order takes its default.
AppendInsert(d, p) ==
    LET r == p.req
        newId == d.seq.cities + 1
        row == [id |-> newId, name |-> Trim(r.name), nights |-> AppendNights(r).v,
                notes |-> CleanCityNotes(r.notes), sort_order |-> DefaultSortOrder,
                trip_id |-> r.tripId]
    IN  IF d.foreign_keys /\ TripRows(d, r.tripId) = {}
        THEN Finish(d, p, ServerError)
        ELSE [db |-> [d EXCEPT !.cities = @ \cup {row}, !.seq.cities = newId],
              p |-> [p EXCEPT !.pc = "select", !.loc.id = newId]]

AppendSelect(d, p) == Finish(d, p, Ok(201, p.loc.id, CityRows(d, p.loc.id)))

AppendStep(d, p) ==
    CASE p.pc = "start" -> AppendCheck(d, p)
      [] p.pc = "insert" -> AppendInsert(d, p)
      [] p.pc = "select" -> AppendSelect(d, p)

(* --------------------- PUT /api/trips/:tripId/cities/:cityId ----------- *)
UpdateStart(d, p) ==
    LET r == p.req IN
    IF r.user = NoUser THEN Finish(d, p, Err(401, "not authenticated"))
    ELSE IF r.tripId = 0 THEN Finish(d, p, Err(400, "invalid trip id"))
    ELSE IF OwnedTrip(d, r.tripId, r.user) = {}
        THEN Finish(d, p, Err(404, "trip not found or unauthorized"))
    ELSE IF r.cityId = 0 THEN Finish(d, p, Err(400, "invalid city id"))
    ELSE Goto(d, p, "check")

\* UpdateCheck that tells a city of another trip (403) from a missing one (404).
UpdateCheckForbidden(d, p) ==
    IF CityInTrip(d, p.req.cityId, p.req.tripId) = {} /\ CityRows(d, p.req.cityId) # {}
        THEN Finish(d, p, Err(403, "forbidden"))
    ELSE IF CityInTrip(d, p.req.cityId, p.req.tripId) = {}
        THEN Finish(d, p, Err(404, "city not found or unauthorized"))
    ELSE Goto(d, p, "update")

\* UpdateCheck without the range check on nights.
UpdateCheckNightsUnchecked(d, p) ==
    LET r == p.req IN
    IF CityInTrip(d, r.cityId, r.tripId) = {}
        THEN Finish(d, p, Err(404, "city not found or unauthorized"))
    ELSE IF r.name # Undef /\ Blank(r.name)
        THEN Finish(d, p, Err(400, "city name required"))
    ELSE IF r.name = Undef /\ r.nights = Undef /\ r.notes = Undef
        THEN Finish(d, p, Err(400, "no fields to update"))
    ELSE Goto(d, p, "update")

UpdateCheck(d, p) ==
    LET r == p.req IN
    IF CityInTrip(d, r.cityId, r.tripId) = {}
        THEN Finish(d, p, Err(404, "city not found or unauthorized"))
    ELSE IF r.name # Undef /\ Blank(r.name)
        THEN Finish(d, p, Err(400, "city name required"))
    ELSE IF r.nights # Undef /\ (~NumberOf(r.nights).finite \/ NumberOf(r.nights).v < 0)
        THEN Finish(d, p, Err(400, "nights must be a non-negative number"))
    ELSE IF r.name = Undef /\ r.nights = Undef /\ r.notes = Undef
        THEN Finish(d, p, Err(400, "no fields to update"))
    ELSE Goto(d, p, "update")

\* UpdateRow that writes all three columns, an unsupplied one as empty.
UpdateRowAllFields(r, c) ==
    [c EXCEPT !.name = IF r.name = Undef THEN Null ELSE Trim(r.name),
              !.nights = IF r.nights = Undef THEN 0 ELSE NumberOf(r.nights).v,
              !.notes = CleanCityNotes(r.notes)]

\* UPDATE cities SET <supplied fields> WHERE id = ?
UpdateRow(r, c) ==
    [c EXCEPT !.name = IF r.name = Undef THEN @ ELSE Trim(r.name),
              !.nights = IF r.nights = Undef THEN @ ELSE NumberOf(r.nights).v,
              !.notes = IF r.notes = Undef THEN @ ELSE CleanCityNotes(r.notes)]

UpdateWrite(d, p) ==
    Goto([d EXCEPT !.cities = {IF c.id = p.req.cityId THEN UpdateRow(p.req, c) ELSE c : c \in @}],
         p, "select")

UpdateSelect(d, p) == Finish(d, p, Ok(200, 0, CityRows(d, p.req.cityId)))

UpdateStep(d, p) ==
    CASE p.pc = "start" -> UpdateStart(d, p)
      [] p.pc = "check" -> UpdateCheck(d, p)
      [] p.pc = "update" -> UpdateWrite(d, p)
      [] p.pc = "select" -> UpdateSelect(d, p)

(* ------------------------ PUT /api/trips/:tripId/cities ---------------- *)
\* The index of an entry that carries none (undefined binds as NULL).
NoIndex == 0 - 1

\* The loop head: the next entry's id is parsed before its city is looked up.
ReorderEntry(d, p, i) ==
    IF i > Len(p.req.sortOrder) THEN Finish(d, p, Ok(200, 0, {}))
    ELSE IF p.req.sortOrder[i].id = 0 THEN Finish(d, p, Err(400, "invalid city id"))
    ELSE [db |-> d, p |-> [p EXCEPT !.pc = "check", !.loc.i = i]]

\* ReorderStart that looks up every listed city before the first write.
ReorderStartAllChecked(d, p) ==
    LET r == p.req IN
    IF r.user = NoUser THEN Finish(d, p, Err(401, "not authenticated"))
    ELSE IF r.tripId = 0 THEN Finish(d, p, Err(400, "invalid trip id"))
    ELSE IF OwnedTrip(d, r.tripId, r.user) = {}
        THEN Finish(d, p, Err(404, "trip not found or unauthorized"))
    ELSE IF ~r.isArray THEN Finish(d, p, Err(400, "invalid sortOrder format"))
    ELSE IF \E i \in 1 .. Len(r.sortOrder) : CityInTrip(d, r.sortOrder[i].id, r.tripId) = {}
        THEN Finish(d, p, Err(404, "city not found or unauthorized"))
    ELSE ReorderEntry(d, p, 1)

ReorderStart(d, p) ==
    LET r == p.req IN
    IF r.user = NoUser THEN Finish(d, p, Err(401, "not authenticated"))
    ELSE IF r.tripId = 0 THEN Finish(d, p, Err(400, "invalid trip id"))
    ELSE IF OwnedTrip(d, r.tripId, r.user) = {}
        THEN Finish(d, p, Err(404, "trip not found or unauthorized"))
    ELSE IF ~r.isArray THEN Finish(d, p, Err(400, "invalid sortOrder format"))
    ELSE ReorderEntry(d, p, 1)

\* ReorderCheck with the trip_id condition lost: a city of any trip is found.
ReorderCheckAnyTrip(d, p) ==
    IF CityRows(d, p.req.sortOrder[p.loc.i].id) = {}
        THEN Finish(d, p, Err(404, "city not found or unauthorized"))
    ELSE Goto(d, p, "update")

ReorderCheck(d, p) ==
    IF CityInTrip(d, p.req.sortOrder[p.loc.i].id, p.req.tripId) = {}
        THEN Finish(d, p, Err(404, "city not found or unauthorized"))
    ELSE Goto(d, p, "update")

\* ReorderWrite with the WHERE clause lost: every city takes the entry's index.
ReorderWriteEveryRow(d, p) ==
    LET e == p.req.sortOrder[p.loc.i] IN
    ReorderEntry([d EXCEPT !.cities = {[c EXCEPT !.sort_order = e.index] : c \in @}], p, p.loc.i + 1)

\* UPDATE cities SET sort_order = ? WHERE id = ?  (sort_order is NOT NULL)
ReorderWrite(d, p) ==
    LET e == p.req.sortOrder[p.loc.i] IN
    IF e.index = NoIndex /\ CityRows(d, e.id) # {} THEN Finish(d, p, ServerError)
    ELSE ReorderEntry(
            [d EXCEPT !.cities = {IF c.id = e.id THEN [c EXCEPT !.sort_order = e.index] ELSE c : c \in @}],
            p, p.loc.i + 1)

ReorderStep(d, p) ==
    CASE p.pc = "start" -> ReorderStart(d, p)
      [] p.pc = "check" -> ReorderCheck(d, p)
      [] p.pc = "update" -> ReorderWrite(d, p)

(* -------------------- DELETE /api/trips/:id/cities/:cityId ------------- *)
\* DeleteCityCheck with the trip_id condition lost: a city of any trip is found.
DeleteCityCheckAnyTrip(d, p) ==
    IF CityRows(d, p.req.cityId) = {}
        THEN Finish(d, p, Err(404, "city not found or unauthorized"))
    ELSE Goto(d, p, "delete")

DeleteCityCheck(d, p) ==
    IF CityInTrip(d, p.req.cityId, p.req.tripId) = {}
        THEN Finish(d, p, Err(404, "city not found or unauthorized"))
    ELSE Goto(d, p, "delete")

\* The transportation table after a city row is deleted: no leg goes with the
\* city (the table declares no cascade from cities).
LegsAfterCityDelete(d, c) == d.legs

\* DeleteCityWrite that also drops the legs from or to the city.
DeleteCityWithLegs(d, p) ==
    Finish([d EXCEPT !.cities = {c \in @ : c.id # p.req.cityId},
                     !.legs = {l \in @ : l.from_city_id # p.req.cityId /\ l.to_city_id # p.req.cityId}],
           p, Ok(200, 0, {}))

\* DeleteCityWrite that closes the gap: later cities of the trip move up by one.
DeleteCityCompacting(d, p) ==
    LET gone == CityRows(d, p.req.cityId) IN
    Finish([d EXCEPT !.cities =
                {IF \E g \in gone : c.trip_id = g.trip_id /\ c.sort_order > g.sort_order
                 THEN [c EXCEPT !.sort_order = @ - 1] ELSE c : c \in @ \ gone}],
           p, Ok(200, 0, {}))

\* DELETE FROM cities WHERE id = ?
DeleteCityWrite(d, p) ==
    Finish([d EXCEPT !.cities = {c \in @ : c.id # p.req.cityId},
                     !.legs = LegsAfterCityDelete(d, p.req.cityId)],
           p, Ok(200, 0, {}))

DeleteCityStart(d, p) ==
    LET r == p.req IN
    IF r.user = NoUser THEN Finish(d, p, Err(401, "not authenticated"))
    ELSE IF r.tripId = 0 THEN Finish(d, p, Err(400, "invalid trip id"))
    ELSE IF OwnedTrip(d, r.tripId, r.user) = {}
        THEN Finish(d, p, Err(404, "trip not found or unauthorized"))
    ELSE IF r.cityId = 0 THEN Finish(d, p, Err(400, "invalid city id"))
    ELSE Goto(d, p, "check")

DeleteCityStep(d, p) ==
    CASE p.pc = "start" -> DeleteCityStart(d, p)
      [] p.pc = "check" -> DeleteCityCheck(d, p)
      [] p.pc = "delete" -> DeleteCityWrite(d, p)

(* ----------------------------- POST /api/trips ------------------------- *)
TripCreateStep(d, p) ==
    LET r == p.req
        newId == d.seq.trips + 1
        row == [id |-> newId, name |-> Trim(r.name),
                start_date |-> IF r.start_date \in {Undef, ""} THEN Null ELSE r.start_date,
                user_id |-> r.user]
    IN  IF r.user = NoUser THEN Finish(d, p, Err(401, "not authenticated"))
        ELSE IF Blank(r.name)
            THEN Finish(d, p, Err(400, "trip name required"))
        ELSE IF r.start_date \notin {Undef, ""} /\ ~IsDate(r.start_date)
            THEN Finish(d, p, Err(400, "start_date must be in YYYY-MM-DD format"))
        ELSE Finish([d EXCEPT !.trips = @ \cup {row}, !.seq.trips = newId], p,
                    Ok(200, newId, {}))

(* ----------------------------- PUT /api/trips/:id ---------------------- *)
TripUpdateStart(d, p) ==
    LET r == p.req IN
    IF r.user = NoUser THEN Finish(d, p, Err(401, "not authenticated"))
    ELSE IF r.tripId = 0 THEN Finish(d, p, Err(400, "invalid trip id"))
    ELSE IF r.name = Undef /\ r.start_date = Undef
        THEN Finish(d, p, Err(400, "no fields to update"))
    ELSE IF OwnedTrip(d, r.tripId, r.user) = {}
        THEN Finish(d, p, Err(404, "trip not found or unauthorized"))
    ELSE IF r.name # Undef /\ Blank(r.name)
        THEN Finish(d, p, Err(400, "trip name required"))
    ELSE IF r.start_date \notin {Undef, ""} /\ ~IsDate(r.start_date)
        THEN Finish(d, p, Err(400, "start_date must be in YYYY-MM-DD format"))
    ELSE Goto(d, p, "update")

\* UPDATE trips SET <supplied fields> WHERE id = ?
TripUpdateRow(r, t) ==
    [t EXCEPT !.name = IF r.name = Undef THEN @ ELSE Trim(r.name),
              !.start_date = IF r.start_date = Undef THEN @
                             ELSE IF r.start_date = "" THEN Null ELSE r.start_date]

TripUpdateWrite(d, p) ==
    Goto([d EXCEPT !.trips = {IF t.id = p.req.tripId THEN TripUpdateRow(p.req, t) ELSE t : t \in @}],
         p, "select")

TripUpdateSelect(d, p) == Finish(d, p, Ok(200, 0, OwnedTrip(d, p.req.tripId, p.req.user)))

TripUpdateStep(d, p) ==
    CASE p.pc = "start" -> TripUpdateStart(d, p)
      [] p.pc = "update" -> TripUpdateWrite(d, p)
      [] p.pc = "select" -> TripUpdateSelect(d, p)

(* --------------------------- DELETE /api/trips/:id --------------------- *)
TripDeleteStart(d, p) ==
    LET r == p.req IN
    IF r.user = NoUser THEN Finish(d, p, Err(401, "not authenticated"))
    ELSE IF r.tripId = 0 THEN Finish(d, p, Err(400, "invalid trip id"))
    ELSE IF OwnedTrip(d, r.tripId, r.user) = {}
        THEN Finish(d, p, Err(404, "trip not found or unauthorized"))
    ELSE Goto(d, p, "delete")

\* cities.trip_id REFERENCES trips(id) ON DELETE CASCADE, when enforced.
CascadeCities(d, t) ==
    IF d.foreign_keys THEN {c \in d.cities : c.trip_id # t} ELSE d.cities

\* The legs of a deleted trip go with it, when foreign keys are enforced.
CascadeLegs(d, t) ==
    IF d.foreign_keys THEN {l \in d.legs : l.trip_id # t} ELSE d.legs

\* DELETE FROM trips WHERE id = ?
TripDeleteWrite(d, p) ==
    Finish([d EXCEPT !.trips = {t \in @ : t.id # p.req.tripId},
                     !.cities = CascadeCities(d, p.req.tripId),
                     !.legs = CascadeLegs(d, p.req.tripId)],
           p, Ok(200, 0, {}))

TripDeleteStep(d, p) ==
    CASE p.pc = "start" -> TripDeleteStart(d, p)
      [] p.pc = "delete" -> TripDeleteWrite(d, p)

(* ------------------------- adjacency in a trip ------------------------- *)
\* ORDER BY sort_order ASC, id ASC
Before(a, b) == a.sort_order < b.sort_order \/ (a.sort_order = b.sort_order /\ a.id < b.id)

\* OrderedCities ordered by sort key alone, one city for each key (the one
\* with the least id): cities that share a key with it are left out.
OrderedCitiesOnePerKey(d, t) ==
    LET S == {c \in CitiesOf(d, t) :
                \A x \in CitiesOf(d, t) : x.sort_order = c.sort_order => c.id <= x.id}
    IN  [i \in 1 .. Cardinality(S) |->
            CHOOSE c \in S : Cardinality({x \in S : x.sort_order < c.sort_order}) = i - 1]

\* SELECT id, sort_order FROM cities WHERE trip_id = ? ORDER BY sort_order ASC, id ASC
OrderedCities(d, t) ==
    LET S == CitiesOf(d, t) IN
    [i \in 1 .. Cardinality(S) |->
        CHOOSE c \in S : Cardinality({x \in S : Before(x, c)}) = i - 1]

\* cities.findIndex((c) => c.id === fromCityId), 1-based; 0 when there is none.
FindIndex(cs, id) ==
    IF \E i \in 1 .. Len(cs) : cs[i].id = id
    THEN CHOOSE i \in 1 .. Len(cs) : cs[i].id = id /\ \A j \in 1 .. i - 1 : cs[j].id # id
    ELSE 0

\* cities[fromIdx + 1]: the id of the next city, 0 when there is none.
NextCityId(cs, idx) == IF idx + 1 <= Len(cs) THEN cs[idx + 1].id ELSE 0

(* ------------- PUT /api/trips/:tripId/cities/:fromCityId/transportation - *)
AllowedModes ==
    {"flight", "car", "train", "public_transport", "motorbike", "boat", "bike", "walk"}

\* LegStart with the session looked up after the ids are validated.
LegStartIdsFirst(d, p) ==
    LET r == p.req IN
    IF r.tripId = 0 THEN Finish(d, p, Err(400, "invalid trip id"))
    ELSE IF r.fromCityId = 0 THEN Finish(d, p, Err(400, "invalid from city id"))
    ELSE IF r.toCityId = 0 THEN Finish(d, p, Err(400, "invalid to city id"))
    ELSE IF r.mode = Undef \/ r.mode = "" THEN Finish(d, p, Err(400, "mode is required"))
    ELSE IF r.mode \notin AllowedModes THEN Finish(d, p, Err(400, "invalid mode"))
    ELSE IF r.user = NoUser THEN Finish(d, p, Err(401, "not authenticated"))
    ELSE IF OwnedTrip(d, r.tripId, r.user) = {}
        THEN Finish(d, p, Err(404, "trip not found or unauthorized"))
    ELSE Goto(d, p, "cities")

LegStart(d, p) ==
    LET r == p.req IN
    IF r.user = NoUser THEN Finish(d, p, Err(401, "not authenticated"))
    ELSE IF r.tripId = 0 THEN Finish(d, p, Err(400, "invalid trip id"))
    ELSE IF r.fromCityId = 0 THEN Finish(d, p, Err(400, "invalid from city id"))
    ELSE IF r.toCityId = 0 THEN Finish(d, p, Err(400, "invalid to city id"))
    ELSE IF r.mode = Undef \/ r.mode = "" THEN Finish(d, p, Err(400, "mode is required"))
    ELSE IF r.mode \notin AllowedModes THEN Finish(d, p, Err(400, "invalid mode"))
    ELSE IF OwnedTrip(d, r.tripId, r.user) = {}
        THEN Finish(d, p, Err(404, "trip not found or unauthorized"))
    ELSE Goto(d, p, "cities")

\* LegAdjacency that asks only for both cities to be in the trip.
LegAdjacencyAnyPair(d, p) ==
    LET cs == OrderedCities(d, p.req.tripId) IN
    IF FindIndex(cs, p.req.fromCityId) = 0 THEN Finish(d, p, Err(404, "from city not found"))
    ELSE IF FindIndex(cs, p.req.toCityId) = 0
        THEN Finish(d, p, Err(400, "transportation can only be set to the next city in the trip"))
    ELSE Goto(d, p, "existing")

LegAdjacency(d, p) ==
    LET r == p.req
        cs == OrderedCities(d, r.tripId)
        fromIdx == FindIndex(cs, r.fromCityId)
    IN  IF fromIdx = 0 THEN Finish(d, p, Err(404, "from city not found"))
        ELSE IF NextCityId(cs, fromIdx) = 0 \/ NextCityId(cs, fromIdx) # r.toCityId
            THEN Finish(d, p, Err(400, "transportation can only be set to the next city in the trip"))
        ELSE Goto(d, p, "existing")

\* ... FROM transportation WHERE trip_id = ? AND from_city_id = ? AND to_city_id = ?
LegRows(d, t, from, to) ==
    {l \in d.legs : l.trip_id = t /\ l.from_city_id = from /\ l.to_city_id = to}

\* db.get: the first matching row, 0 when there is none.
FirstId(rows) == IF rows = {} THEN 0 ELSE CHOOSE i \in {l.id : l \in rows} : \A l \in rows : i <= l.id

\* LegExisting that never finds the row: every Upsert inserts.
LegExistingNone(d, p) == [db |-> d, p |-> [p EXCEPT !.pc = "write", !.loc.id = 0]]

\* LegExisting that looks the row up by trip and from-city alone.
LegExistingAnyTarget(d, p) ==
    [db |-> d,
     p |-> [p EXCEPT !.pc = "write",
                     !.loc.id = FirstId({l \in d.legs : l.trip_id = p.req.tripId
                                                        /\ l.from_city_id = p.req.fromCityId})]]

LegExisting(d, p) ==
    [db |-> d,
     p |-> [p EXCEPT !.pc = "write",
                     !.loc.id = FirstId(LegRows(d, p.req.tripId, p.req.fromCityId, p.req.toCityId))]]

\* The transportation table's constraints on a new row: none over
\* (trip_id, from_city_id, to_city_id), so no INSERT is refused.
LegInsertRefused(d, row) == FALSE

\* typeof notes === "string" ? notes.trim() : null
CleanLegNotes(notes) == IF notes \in {Undef, Null} THEN Null ELSE Trim(notes)

\* LegWrite that replaces an existing row by a new one (a new identity).
LegWriteReplacesRow(d, p) ==
    LET r == p.req
        newId == d.seq.legs + 1
        row == [id |-> newId, trip_id |-> r.tripId, from_city_id |-> r.fromCityId,
                to_city_id |-> r.toCityId, mode |-> r.mode, notes |-> CleanLegNotes(r.notes)]
    IN  Goto([d EXCEPT !.legs = {l \in @ : l.id # p.loc.id} \cup {row}, !.seq.legs = newId],
             p, "saved")

LegWrite(d, p) ==
    LET r == p.req
        newId == d.seq.legs + 1
        row == [id |-> newId, trip_id |-> r.tripId, from_city_id |-> r.fromCityId,
                to_city_id |-> r.toCityId, mode |-> r.mode, notes |-> CleanLegNotes(r.notes)]
    IN  IF p.loc.id # 0
        THEN Goto([d EXCEPT !.legs = {IF l.id = p.loc.id
                                        THEN [l EXCEPT !.mode = r.mode, !.notes = CleanLegNotes(r.notes)]
                                        ELSE l : l \in @}],
                  p, "saved")
        ELSE IF LegInsertRefused(d, row) THEN Finish(d, p, ServerError)
        ELSE Goto([d EXCEPT !.legs = @ \cup {row}, !.seq.legs = newId], p, "saved")

LegSaved(d, p) ==
    LET rows == LegRows(d, p.req.tripId, p.req.fromCityId, p.req.toCityId) IN
    Finish(d, p, Ok(200, 0, {l \in rows : l.id = FirstId(rows)}))

LegStep(d, p) ==
    CASE p.pc = "start" -> LegStart(d, p)
      [] p.pc = "cities" -> LegAdjacency(d, p)
      [] p.pc = "existing" -> LegExisting(d, p)
      [] p.pc = "write" -> LegWrite(d, p)
      [] p.pc = "saved" -> LegSaved(d, p)

(* ----------- DELETE /api/trips/:tripId/cities/:fromCityId/transportation - *)
LegDeleteStart(d, p) ==
    LET r == p.req IN
    IF r.user = NoUser THEN Finish(d, p, Err(401, "not authenticated"))
    ELSE IF r.tripId = 0 THEN Finish(d, p, Err(400, "invalid trip id"))
    ELSE IF r.fromCityId = 0 THEN Finish(d, p, Err(400, "invalid from city id"))
    ELSE IF OwnedTrip(d, r.tripId, r.user) = {}
        THEN Finish(d, p, Err(404, "trip not found or unauthorized"))
    ELSE Goto(d, p, "cities")

LegDeleteAdjacency(d, p) ==
    LET cs == OrderedCities(d, p.req.tripId)
        fromIdx == FindIndex(cs, p.req.fromCityId)
    IN  IF fromIdx = 0 THEN Finish(d, p, Err(404, "from city not found"))
        ELSE IF NextCityId(cs, fromIdx) = 0 THEN Finish(d, p, Err(400, "no next city for this leg"))
        ELSE [db |-> d, p |-> [p EXCEPT !.pc = "delete", !.loc.next = NextCityId(cs, fromIdx)]]

\* LegDeleteWrite with the to_city_id condition lost: every leg from the city goes.
LegDeleteFromCity(d, p) ==
    Finish([d EXCEPT !.legs = {l \in @ : ~(l.trip_id = p.req.tripId /\ l.from_city_id = p.req.fromCityId)}],
           p, Ok(200, 0, {}))

\* DELETE FROM transportation WHERE trip_id = ? AND from_city_id = ? AND to_city_id = ?
LegDeleteWrite(d, p) ==
    Finish([d EXCEPT !.legs = @ \ LegRows(d, p.req.tripId, p.req.fromCityId, p.loc.next)],
           p, Ok(200, 0, {}))

LegDeleteStep(d, p) ==
    CASE p.pc = "start" -> LegDeleteStart(d, p)
      [] p.pc = "cities" -> LegDeleteAdjacency(d, p)
      [] p.pc = "delete" -> LegDeleteWrite(d, p)

(* ------------------------- accounts and sessions ----------------------- *)
\* const SESSION_MAX_AGE = 7 * 24 * 60 * 60 * 1000 (milliseconds)
SESSION_MAX_AGE == 7 * 24 * 60 * 60 * 1000

\* verificationExpires = Date.now() + 24 * 60 * 60 * 1000
VerificationTtl == 24 * 60 * 60 * 1000

\* req.cookies[COOKIE_NAME] when the request carries no session cookie.
NoCookie == 0

\* users.verification_token NULL, and a request without a token; a token is
\* the uuid issued at registration, here the number of the registration.
NullToken == 0

\* users.verification_expires NULL: NULL > ? holds for no time.
NullTime == 0 - 1

\* newPassword.length < 6
MinPasswordLength == 6

\* s.length of the passwords the requests carry.
PasswordLength(s) ==
    CASE s = "" -> 0
      [] s = "weak" -> 4
      [] OTHER -> 7

\* bcrypt.hash(password, 10) and bcrypt.compare(password, hash)
Hash(pw) == <<"bcrypt", pw>>
Compare(pw, h) == h = Hash(pw)

\* !x of a body field
Missing(x) == x \in {Undef, Null, ""}

UserRows(d, u) == {x \in d.users : x.id = u}

\* SELECT ... FROM sessions s JOIN users u ON u.id = s.user_id WHERE s.sid = ?
SessionRows(d, sid) == {x \in d.sessions : x.sid = sid /\ UserRows(d, x.user_id) # {}}

\* getSession with the expired row left in the table.
GetSessionKeepsExpired(d, t, sid) ==
    IF sid = NoCookie \/ SessionRows(d, sid) = {} THEN [db |-> d, user |-> NoUser]
    ELSE LET row == CHOOSE x \in SessionRows(d, sid) : TRUE IN
         IF t - row.createdAt > SESSION_MAX_AGE THEN [db |-> d, user |-> NoUser]
         ELSE [db |-> d, user |-> row.user_id]

\* getSession(req) at time t: the user of the session, NoUser for null; an
\* expired session is deleted by the lookup.
GetSession(d, t, sid) ==
    IF sid = NoCookie \/ SessionRows(d, sid) = {} THEN [db |-> d, user |-> NoUser]
    ELSE LET row == CHOOSE x \in SessionRows(d, sid) : TRUE IN
         IF t - row.createdAt > SESSION_MAX_AGE
         THEN [db |-> [d EXCEPT !.sessions = {x \in @ : x.sid # sid}], user |-> NoUser]
         ELSE [db |-> d, user |-> row.user_id]

\* POST /api/register
RegisterHandler(d, p) ==
    LET r == p.req
        newId == d.seq.users + 1
        row == [id |-> newId, email |-> r.email, password |-> Hash(r.password),
                verified |-> IF r.skipEmail THEN 1 ELSE 0,
                verification_token |-> IF r.skipEmail THEN NullToken ELSE newId,
                verification_expires |-> IF r.skipEmail THEN NullTime ELSE r.at + VerificationTtl]
    IN  IF Missing(r.email) \/ Missing(r.password)
            THEN Finish(d, p, Err(400, "email and password required"))
        ELSE IF r.password # r.confirmPassword
            THEN Finish(d, p, Err(400, "passwords do not match"))
        ELSE IF \E u \in d.users : u.email = r.email
            THEN Finish(d, p, Err(409, "email already exists"))
        ELSE Finish([d EXCEPT !.users = @ \cup {row}, !.seq.users = newId], p, Ok(200, 0, {}))

\* VerifyEmailHandler without the condition on verification_expires.
VerifyEmailIgnoresExpiry(d, p) ==
    LET r == p.req
        found == {u \in d.users : u.verification_token = r.token /\ u.verified = 0}
        first == CHOOSE u \in found : \A x \in found : u.id <= x.id
    IN  IF r.token = NullToken THEN Finish(d, p, Err(400, "verification token required"))
        ELSE IF found = {} THEN Finish(d, p, Err(400, "invalid or expired verification token"))
        ELSE Finish([d EXCEPT !.users =
                        {IF u.id = first.id
                         THEN [u EXCEPT !.verified = 1, !.verification_token = NullToken]
                         ELSE u : u \in @}],
                    p, Ok(200, 0, {}))

\* GET /api/verify-email
VerifyEmailHandler(d, p) ==
    LET r == p.req
        found == {u \in d.users : /\ u.verification_token = r.token
                                  /\ u.verification_expires > r.at
                                  /\ u.verified = 0}
        first == CHOOSE u \in found : \A x \in found : u.id <= x.id
    IN  IF r.token = NullToken THEN Finish(d, p, Err(400, "verification token required"))
        ELSE IF found = {} THEN Finish(d, p, Err(400, "invalid or expired verification token"))
        ELSE Finish([d EXCEPT !.users =
                        {IF u.id = first.id
                         THEN [u EXCEPT !.verified = 1, !.verification_token = NullToken]
                         ELSE u : u \in @}],
                    p, Ok(200, 0, {}))

\* LoginHandler without the check of user.verified.
LoginUnverified(d, p) ==
    LET r == p.req
        found == {u \in d.users : u.email = r.email}
        user == CHOOSE u \in found : TRUE
        sid == d.seq.sessions + 1
    IN  IF Missing(r.email) \/ Missing(r.password)
            THEN Finish(d, p, Err(400, "email and password required"))
        ELSE IF found = {} THEN Finish(d, p, Err(401, "invalid credentials"))
        ELSE IF ~Compare(r.password, user.password)
            THEN Finish(d, p, Err(401, "invalid credentials"))
        ELSE Finish([d EXCEPT !.sessions = @ \cup {[sid |-> sid, user_id |-> user.id, createdAt |-> r.at]},
                              !.seq.sessions = sid],
                    p, Ok(200, sid, {}))

\* POST /api/login; createSessionForUserId: the new sid (a uuid) is one no
\* session ever had, and it is the cookie the response sets.
LoginHandler(d, p) ==
    LET r == p.req
        found == {u \in d.users : u.email = r.email}
        user == CHOOSE u \in found : TRUE
        sid == d.seq.sessions + 1
    IN  IF Missing(r.email) \/ Missing(r.password)
            THEN Finish(d, p, Err(400, "email and password required"))
        ELSE IF found = {} THEN Finish(d, p, Err(401, "invalid credentials"))
        ELSE IF ~Compare(r.password, user.password)
            THEN Finish(d, p, Err(401, "invalid credentials"))
        ELSE IF user.verified = 0 THEN Finish(d, p, Err(403, "email not verified"))
        ELSE Finish([d EXCEPT !.sessions = @ \cup {[sid |-> sid, user_id |-> user.id, createdAt |-> r.at]},
                              !.seq.sessions = sid],
                    p, Ok(200, sid, {}))

\* GET /api/me
MeHandler(d, p) ==
    LET g == GetSession(d, p.req.at, p.req.sid) IN
    IF g.user = NoUser THEN Finish(g.db, p, Err(401, "not authenticated"))
    ELSE Finish(g.db, p, Ok(200, g.user, {}))

\* ChangePasswordHandler that deletes the session of the request only.
ChangePasswordKeepsOthers(d, p) ==
    LET r == p.req
        g == GetSession(d, r.at, r.sid)
        user == CHOOSE u \in UserRows(g.db, g.user) : TRUE
    IN  IF g.user = NoUser THEN Finish(g.db, p, Err(401, "not authenticated"))
        ELSE IF Missing(r.currentPassword) \/ Missing(r.newPassword)
            THEN Finish(g.db, p, Err(400, "current password and new password required"))
        ELSE IF PasswordLength(r.newPassword) < MinPasswordLength
            THEN Finish(g.db, p, Err(400, "new password must be at least 6 characters"))
        ELSE IF UserRows(g.db, g.user) = {} THEN Finish(g.db, p, Err(404, "user not found"))
        ELSE IF ~Compare(r.currentPassword, user.password)
            THEN Finish(g.db, p, Err(401, "current password is incorrect"))
        ELSE Finish([g.db EXCEPT
                        !.users = {IF u.id = user.id THEN [u EXCEPT !.password = Hash(r.newPassword)]
                                   ELSE u : u \in @},
                        !.sessions = {x \in @ : x.sid # r.sid}],
                    p, Ok(200, 0, {}))

\* POST /api/change-password
ChangePasswordHandler(d, p) ==
    LET r == p.req
        g == GetSession(d, r.at, r.sid)
        user == CHOOSE u \in UserRows(g.db, g.user) : TRUE
    IN  IF g.user = NoUser THEN Finish(g.db, p, Err(401, "not authenticated"))
        ELSE IF Missing(r.currentPassword) \/ Missing(r.newPassword)
            THEN Finish(g.db, p, Err(400, "current password and new password required"))
        ELSE IF PasswordLength(r.newPassword) < MinPasswordLength
            THEN Finish(g.db, p, Err(400, "new password must be at least 6 characters"))
        ELSE IF UserRows(g.db, g.user) = {} THEN Finish(g.db, p, Err(404, "user not found"))
        ELSE IF ~Compare(r.currentPassword, user.password)
            THEN Finish(g.db, p, Err(401, "current password is incorrect"))
        ELSE Finish([g.db EXCEPT
                        !.users = {IF u.id = user.id THEN [u EXCEPT !.password = Hash(r.newPassword)]
                                   ELSE u : u \in @},
                        !.sessions = {x \in @ : x.user_id # user.id}],
                    p, Ok(200, 0, {}))

\* LogoutHandler that clears the cookie and leaves the session row.
LogoutKeepsSession(d, p) == Finish(d, p, Ok(200, 0, {}))

\* POST /api/logout
LogoutHandler(d, p) ==
    IF p.req.sid # NoCookie
    THEN Finish([d EXCEPT !.sessions = {x \in @ : x.sid # p.req.sid}], p, Ok(200, 0, {}))
    ELSE Finish(d, p, Ok(200, 0, {}))

\* DELETE FROM users WHERE id = ?, with the ON DELETE CASCADE clauses of
\* sessions, trips and (through trips) cities when foreign keys are enforced.
DeleteUser(d, u) ==
    LET gone == {t.id : t \in {x \in d.trips : x.user_id = u}} IN
    IF ~d.foreign_keys THEN [d EXCEPT !.users = {x \in @ : x.id # u}]
    ELSE [d EXCEPT !.users = {x \in @ : x.id # u},
                   !.sessions = {x \in @ : x.user_id # u},
                   !.trips = {x \in @ : x.user_id # u},
                   !.cities = {c \in @ : c.trip_id \notin gone},
                   !.legs = {l \in @ : \A t \in gone : l \in CascadeLegs(d, t)}]

\* DeleteAccountHandler without PRAGMA foreign_keys = ON.
DeleteAccountNoPragma(d, p) ==
    LET g == GetSession(d, p.req.at, p.req.sid) IN
    IF g.user = NoUser THEN Finish(g.db, p, Err(401, "not authenticated"))
    ELSE Finish(DeleteUser(g.db, g.user), p, Ok(200, 0, {}))

\* DELETE /api/me
DeleteAccountHandler(d, p) ==
    LET g == GetSession(d, p.req.at, p.req.sid) IN
    IF g.user = NoUser THEN Finish(g.db, p, Err(401, "not authenticated"))
    ELSE Finish(DeleteUser([g.db EXCEPT !.foreign_keys = TRUE], g.user), p, Ok(200, 0, {}))

\* Cleanup that also deletes the sessions created exactly at the cutoff.
CleanupAtCutoff(d, t) ==
    [d EXCEPT !.sessions = {x \in @ : ~(x.createdAt <= t - SESSION_MAX_AGE)}]

\* The hourly job at time t: DELETE FROM sessions WHERE createdAt < cutoff
Cleanup(d, t) ==
    [d EXCEPT !.sessions = {x \in @ : ~(x.createdAt < t - SESSION_MAX_AGE)}]

(* ----------------------- POST /api/state/firstlogin -------------------- *)
\* The loop over state.trips at trip i: the next INSERT, or the response.
FirstLoginAt(d, p, i) ==
    IF i > Len(p.req.state.trips) THEN Finish(d, p, Ok(200, 0, {}))
    ELSE [db |-> d, p |-> [p EXCEPT !.pc = "trip", !.loc.i = i]]

FirstLoginStart(d, p) ==
    LET r == p.req IN
    IF r.user = NoUser THEN Finish(d, p, Err(401, "not authenticated"))
    ELSE IF r.typeOfState = Undef THEN Finish(d, p, Err(400, "state missing in body"))
    ELSE IF r.typeOfState = Null THEN Finish(d, p, ServerError)
    ELSE FirstLoginAt(d, p, 1)

\* INSERT INTO trips(name, start_date, user_id): the name as it was sent.
FirstLoginTrip(d, p) ==
    LET trip == p.req.state.trips[p.loc.i]
        newId == d.seq.trips + 1
        row == [id |-> newId, name |-> trip.name, start_date |-> Null, user_id |-> p.req.user]
        d2 == [d EXCEPT !.trips = @ \cup {row}, !.seq.trips = newId]
    IN  IF trip.cities = <<>> THEN FirstLoginAt(d2, p, p.loc.i + 1)
        ELSE [db |-> d2, p |-> [p EXCEPT !.pc = "city", !.loc.id = newId, !.loc.next = 1]]

\* INSERT INTO cities(name, nights, notes, sort_order, trip_id) with the lastID
\* of the trip's INSERT; sort_order counts from 0 within the trip.
FirstLoginCity(d, p) ==
    LET trip == p.req.state.trips[p.loc.i]
        city == trip.cities[p.loc.next]
        newId == d.seq.cities + 1
        row == [id |-> newId, name |-> city.name, nights |-> city.nights,
                notes |-> city.notes, sort_order |-> p.loc.next - 1, trip_id |-> p.loc.id]
        d2 == [d EXCEPT !.cities = @ \cup {row}, !.seq.cities = newId]
    IN  IF d.foreign_keys /\ TripRows(d, p.loc.id) = {} THEN Finish(d, p, ServerError)
        ELSE IF p.loc.next < Len(trip.cities)
            THEN [db |-> d2, p |-> [p EXCEPT !.loc.next = @ + 1]]
        ELSE FirstLoginAt(d2, p, p.loc.i + 1)

FirstLoginStep(d, p) ==
    CASE p.pc = "start" -> FirstLoginStart(d, p)
      [] p.pc = "trip" -> FirstLoginTrip(d, p)
      [] p.pc = "city" -> FirstLoginCity(d, p)

(* --------------------------- runMigrations ---------------------------- *)
\* A file of the migrations directory is a number: 0 a file whose name does not
\* end in ".sql", 1 .. MaxMigrations the ".sql" files in the order of their
\* names; the migration id (the name without ".sql") is the same number.
NotSql == 0
EndsWithSql(f) == f # NotSql

\* files.filter(...): the entries of q that satisfy Keep, in the order of q.
Filter(q, Keep(_)) == SelectSeq(q, Keep)

\* Array.prototype.sort() on file names, no two of which are equal.
Sort(q) ==
    LET S == {q[i] : i \in 1 .. Len(q)} IN
    [i \in 1 .. Cardinality(S) |-> CHOOSE x \in S : Cardinality({y \in S : y < x}) = i - 1]

\* process.exit(1), and the return after the work is done.
ExitFailure == Err(1, "Migration failed")
ExitSuccess == Ok(0, 0, {})

\* A run of the script: files is what readdir returns, pending the migrations
\* the run has found pending, i the position of the loop in pending, ran the
\* migrations whose SQL this run has executed.
NewRun(files) ==
    [req |-> [op |-> "migrate", files |-> files], pc |-> "start",
     loc |-> [i |-> 0, pending |-> <<>>, ran |-> <<>>], res |-> NoRes, failed |-> FALSE]

\* MigrateStart that takes every migration file as pending.
MigrateStartAll(d, p) ==
    LET migrationFiles == Sort(Filter(p.req.files, EndsWithSql)) IN
    IF migrationFiles = <<>> THEN Finish(d, p, ExitSuccess)
    ELSE [db |-> d, p |-> [p EXCEPT !.pc = "exec", !.loc.pending = migrationFiles, !.loc.i = 1]]

\* initMigrationTable, readdir, getExecutedMigrations and the pending list.
MigrateStart(d, p) ==
    LET migrationFiles == Sort(Filter(p.req.files, EndsWithSql))
        NotExecuted(f) == f \notin d.migrations
        pendingMigrations == Filter(migrationFiles, NotExecuted)
    IN  IF pendingMigrations = <<>> THEN Finish(d, p, ExitSuccess)
        ELSE [db |-> d, p |-> [p EXCEPT !.pc = "exec", !.loc.pending = pendingMigrations, !.loc.i = 1]]

\* readFile and executeSql of the migration the loop is at.
MigrateExec(d, p) ==
    LET m == p.loc.pending[p.loc.i] IN
    [db |-> [d EXCEPT !.applied = @ \cup {m}],
     p |-> [p EXCEPT !.pc = "mark", !.loc.ran = Append(@, m)]]

\* markMigrationExecuted: INSERT INTO __migrations (id), id the PRIMARY KEY;
\* then the next migration of the loop.
MigrateMark(d, p) ==
    LET m == p.loc.pending[p.loc.i] IN
    IF m \in d.migrations THEN Finish(d, [p EXCEPT !.failed = TRUE], ExitFailure)
    ELSE IF p.loc.i = Len(p.loc.pending)
        THEN Finish([d EXCEPT !.migrations = @ \cup {m}], p, ExitSuccess)
    ELSE [db |-> [d EXCEPT !.migrations = @ \cup {m}],
          p |-> [p EXCEPT !.pc = "exec", !.loc.i = @ + 1]]

\* The call the run awaits rejects: the error is rethrown, the outer catch
\* exits with 1; an SQL script that failed counts as not executed.
MigrateFails(d, p) ==
    [db |-> d, p |-> [p EXCEPT !.pc = "done", !.res = ExitFailure, !.failed = TRUE]]

MigrateStep(d, p) ==
    CASE p.pc = "start" -> MigrateStart(d, p)
      [] p.pc = "exec" -> MigrateExec(d, p)
      [] p.pc = "mark" -> MigrateMark(d, p)

(* ---------------------------- dispatching ------------------------------ *)
Step(d, p) ==
    CASE p.req.op = "append" -> AppendStep(d, p)
      [] p.req.op = "tripCreate" -> TripCreateStep(d, p)
      [] p.req.op = "update" -> UpdateStep(d, p)
      [] p.req.op = "reorder" -> ReorderStep(d, p)
      [] p.req.op = "deleteCity" -> DeleteCityStep(d, p)
      [] p.req.op = "tripUpdate" -> TripUpdateStep(d, p)
      [] p.req.op = "tripDelete" -> TripDeleteStep(d, p)
      [] p.req.op = "leg" -> LegStep(d, p)
      [] p.req.op = "legDelete" -> LegDeleteStep(d, p)
      [] p.req.op = "register" -> RegisterHandler(d, p)
      [] p.req.op = "verifyEmail" -> VerifyEmailHandler(d, p)
      [] p.req.op = "login" -> LoginHandler(d, p)
      [] p.req.op = "me" -> MeHandler(d, p)
      [] p.req.op = "changePassword" -> ChangePasswordHandler(d, p)
      [] p.req.op = "logout" -> LogoutHandler(d, p)
      [] p.req.op = "deleteAccount" -> DeleteAccountHandler(d, p)
      [] p.req.op = "migrate" -> MigrateStep(d, p)
      [] p.req.op = "firstLogin" -> FirstLoginStep(d, p)

\* A handler run from its first statement to its response, nothing in between.
RECURSIVE Run(_, _)
Run(d, p) ==
    IF p.pc = "done" THEN [db |-> d, p |-> p]
    ELSE LET s == Step(d, p) IN Run(s.db, s.p)

WithinBounds(d) ==
    /\ d.seq.trips <= MaxTrips
    /\ d.seq.cities <= MaxCities
    /\ d.seq.legs <= MaxLegs
    /\ d.seq.users <= MaxUsers
    /\ d.seq.sessions <= MaxSessions

\* A request served as a whole from state d: the state and the response it leaves.
Served(d, r) == Run(d, NewProc(r))

\* No other request is in flight, and serving r stays within the bounds.
CanServe(r) == procs = <<>> /\ WithinBounds(Served(db, r).db)

(* ------------------------------ requests ------------------------------- *)
Requesters == Users \cup {NoUser}
\* A path parameter after parseInt: 0 stands for every value the handlers
\* refuse as an id (0, NaN); MaxTrips + 1 is an id no row ever has.
TripIdParams == 0 .. MaxTrips + 1
CityIdParams == 0 .. MaxCities + 1

PostCityReq(u, t, n, k, x) ==
    [op |-> "append", user |-> u, tripId |-> t, name |-> n, nights |-> k, notes |-> x]
PutCityReq(u, t, c, n, k, x) ==
    [op |-> "update", user |-> u, tripId |-> t, cityId |-> c, name |-> n, nights |-> k, notes |-> x]
ReorderReq(u, t, arr, so) ==
    [op |-> "reorder", user |-> u, tripId |-> t, isArray |-> arr, sortOrder |-> so]
DeleteCityReq(u, t, c) == [op |-> "deleteCity", user |-> u, tripId |-> t, cityId |-> c]
PostTripReq(u, n, s) == [op |-> "tripCreate", user |-> u, name |-> n, start_date |-> s]
PutTripReq(u, t, n, s) == [op |-> "tripUpdate", user |-> u, tripId |-> t, name |-> n, start_date |-> s]
DeleteTripReq(u, t) == [op |-> "tripDelete", user |-> u, tripId |-> t]
PutLegReq(u, t, from, to, m, x) ==
    [op |-> "leg", user |-> u, tripId |-> t, fromCityId |-> from, toCityId |-> to,
     mode |-> m, notes |-> x]
DeleteLegReq(u, t, from) == [op |-> "legDelete", user |-> u, tripId |-> t, fromCityId |-> from]
\* typeOfState: Undef when the body has no state, Null when it is null (then
\* state.trips throws), "object" otherwise.
FirstLoginReq(u, ty, st) == [op |-> "firstLogin", user |-> u, typeOfState |-> ty, state |-> st]

\* The sortOrder body the client sends for a list of city ids: each id with
\* its zero-based position as index.
Positions(ids) == [i \in 1 .. Len(ids) |-> [id |-> ids[i], index |-> i - 1]]

\* The lists of distinct ids of S, of every length.
DistinctLists(S) ==
    UNION {{q \in [1 .. n -> S] : \A i, j \in 1 .. n : i # j => q[i] # q[j]} :
           n \in 0 .. Cardinality(S)}

\* The requests that drive the state: the trips and cities of one user.
DriveUsers == {1}
DriveTrips == 1 .. MaxTrips
DriveCities == 1 .. MaxCities

PostTripDrive == {PostTripReq(u, " A ", Undef) : u \in DriveUsers}
PutTripDrive == {PutTripReq(u, t, "A", Undef) : u \in DriveUsers, t \in DriveTrips}
DeleteTripDrive == {DeleteTripReq(u, t) : u \in DriveUsers, t \in DriveTrips}
PostCityDrive == {PostCityReq(u, t, " A ", Undef, Undef) : u \in DriveUsers, t \in DriveTrips}
PutCityDrive == {PutCityReq(u, t, 1, "B", Undef, Undef) : u \in DriveUsers, t \in DriveTrips}
ReorderDrive ==
    {ReorderReq(u, t, TRUE, Positions(q)) :
        u \in DriveUsers, t \in DriveTrips, q \in DistinctLists(DriveCities)}
DeleteCityDrive == {DeleteCityReq(u, t, c) : u \in DriveUsers, t \in DriveTrips, c \in DriveCities}
PutLegDrive ==
    {PutLegReq(u, t, a, b, m, Undef) :
        u \in DriveUsers, t \in DriveTrips, a \in DriveCities, b \in DriveCities, m \in {"train"}}
DeleteLegDrive == {DeleteLegReq(u, t, a) : u \in DriveUsers, t \in DriveTrips, a \in DriveCities}

(* ------------------------------- actions ------------------------------- *)
PostTrip ==
    \E r \in PostTripDrive :
        /\ CanServe(r)
        /\ db' = Served(db, r).db
        /\ UNCHANGED <<procs, now>>
PutTrip ==
    \E r \in PutTripDrive :
        /\ CanServe(r)
        /\ db' = Served(db, r).db
        /\ UNCHANGED <<procs, now>>
DeleteTrip ==
    \E r \in DeleteTripDrive :
        /\ CanServe(r)
        /\ db' = Served(db, r).db
        /\ UNCHANGED <<procs, now>>
PostCity ==
    \E r \in PostCityDrive :
        /\ CanServe(r)
        /\ db' = Served(db, r).db
        /\ UNCHANGED <<procs, now>>
PutCity ==
    \E r \in PutCityDrive :
        /\ CanServe(r)
        /\ db' = Served(db, r).db
        /\ UNCHANGED <<procs, now>>
PutCitiesOrder ==
    \E r \in ReorderDrive :
        /\ CanServe(r)
        /\ db' = Served(db, r).db
        /\ UNCHANGED <<procs, now>>
DeleteCity ==
    \E r \in DeleteCityDrive :
        /\ CanServe(r)
        /\ db' = Served(db, r).db
        /\ UNCHANGED <<procs, now>>
PutTransportation ==
    \E r \in PutLegDrive :
        /\ CanServe(r)
        /\ db' = Served(db, r).db
        /\ UNCHANGED <<procs, now>>
DeleteTransportation ==
    \E r \in DeleteLegDrive :
        /\ CanServe(r)
        /\ db' = Served(db, r).db
        /\ UNCHANGED <<procs, now>>

Init ==
    /\ db = EmptyDb
    /\ procs = <<>>
    /\ now = 0

Next ==
    \/ PostTrip
    \/ PutTrip
    \/ PostCity
    \/ PutCity
    \/ PutCitiesOrder
    \/ DeleteCity
    \/ PutTransportation
    \/ DeleteTransportation

\* Requests served one after the other, each as a whole.
Spec == Init /\ [][Next]_vars

(* ------------------------ requests in flight together ------------------ *)
\* Two clients of one user's trip: the trip and its cities are set up, and the
\* leg between the first two cities is written with either mode.
ConcDrive ==
    PostTripDrive
    \cup {PostCityReq(u, 1, " A ", Undef, Undef) : u \in DriveUsers}
    \cup {PutLegReq(u, 1, 1, 2, m, Undef) : u \in DriveUsers, m \in {"train", "car"}}

\* A request arrives while fewer than MaxInFlight are being served.
Arrive ==
    \E r \in ConcDrive :
        /\ Len(procs) < MaxInFlight
        /\ procs' = Append(procs, NewProc(r))
        /\ UNCHANGED <<db, now>>

Without(q, i) == [j \in 1 .. Len(q) - 1 |-> IF j < i THEN q[j] ELSE q[j + 1]]

\* One request in flight runs up to its next awaited storage call; when its
\* handler has responded it leaves.
Proceed ==
    \E i \in 1 .. Len(procs) :
        LET s == Step(db, procs[i]) IN
        /\ WithinBounds(s.db)
        /\ db' = s.db
        /\ procs' = IF s.p.pc = "done" THEN Without(procs, i) ELSE [procs EXCEPT ![i] = s.p]
        /\ UNCHANGED now

NextConc ==
    \/ Arrive
    \/ Proceed

SpecConc == Init /\ [][NextConc]_vars

\* The response is a success.
Accepted(out) == out.p.res.status \in {200, 201}

(* ---------------------- accounts: requests and actions ----------------- *)
RegisterReq(e, pw, cpw, skip, t) ==
    [op |-> "register", email |-> e, password |-> pw, confirmPassword |-> cpw,
     skipEmail |-> skip, at |-> t]
VerifyEmailReq(token, t) == [op |-> "verifyEmail", token |-> token, at |-> t]
LoginReq(e, pw, t) == [op |-> "login", email |-> e, password |-> pw, at |-> t]
MeReq(sid, t) == [op |-> "me", sid |-> sid, at |-> t]
ChangePasswordReq(sid, cur, new, t) ==
    [op |-> "changePassword", sid |-> sid, currentPassword |-> cur, newPassword |-> new, at |-> t]
LogoutReq(sid) == [op |-> "logout", sid |-> sid]
DeleteAccountReq(sid, t) == [op |-> "deleteAccount", sid |-> sid, at |-> t]

\* A trip, city or transportation request that carries the cookie sid, served
\* at time t: the handler's first statement is s = await getSession(req).
WithSession(d, t, sid, r) ==
    LET g == GetSession(d, t, sid) IN Served(g.db, [r EXCEPT !.user = g.user])

\* The times at which something happens: the start, a millisecond later, the
\* expiry of a verification token issued at the start, and the two sides of the
\* maximum age of a session created at the start.
Instants == {0, 1, VerificationTtl, SESSION_MAX_AGE, SESSION_MAX_AGE + 1}

Emails == {"a@example.com", "b@example.com"}
Cookies == 1 .. MaxSessions

Register ==
    \E e \in Emails, skip \in BOOLEAN :
        LET r == RegisterReq(e, "secret1", "secret1", skip, now) IN
        /\ CanServe(r)
        /\ db' = Served(db, r).db
        /\ UNCHANGED <<procs, now>>

VerifyEmail ==
    \E token \in 1 .. MaxUsers :
        LET r == VerifyEmailReq(token, now) IN
        /\ CanServe(r)
        /\ db' = Served(db, r).db
        /\ UNCHANGED <<procs, now>>

Login ==
    \E e \in Emails, pw \in {"secret1", "secret2"} :
        LET r == LoginReq(e, pw, now) IN
        /\ CanServe(r)
        /\ db' = Served(db, r).db
        /\ UNCHANGED <<procs, now>>

GetMe ==
    \E sid \in Cookies :
        LET r == MeReq(sid, now) IN
        /\ CanServe(r)
        /\ db' = Served(db, r).db
        /\ UNCHANGED <<procs, now>>

ChangePassword ==
    \E sid \in Cookies :
        LET r == ChangePasswordReq(sid, "secret1", "secret2", now) IN
        /\ CanServe(r)
        /\ db' = Served(db, r).db
        /\ UNCHANGED <<procs, now>>

Logout ==
    \E sid \in Cookies :
        LET r == LogoutReq(sid) IN
        /\ CanServe(r)
        /\ db' = Served(db, r).db
        /\ UNCHANGED <<procs, now>>

DeleteAccount ==
    \E sid \in Cookies :
        LET r == DeleteAccountReq(sid, now) IN
        /\ CanServe(r)
        /\ db' = Served(db, r).db
        /\ UNCHANGED <<procs, now>>

\* setInterval(..., CLEANUP_INTERVAL): the job runs between requests.
SessionCleanup ==
    /\ procs = <<>>
    /\ db' = Cleanup(db, now)
    /\ UNCHANGED <<procs, now>>

\* Date.now() moves on.
Tick ==
    /\ procs = <<>>
    /\ \E t \in Instants : t > now /\ now' = t
    /\ UNCHANGED <<db, procs>>

PostTripWithSession ==
    \E sid \in Cookies :
        LET out == WithSession(db, now, sid, PostTripReq(NoUser, " A ", Undef)) IN
        /\ procs = <<>>
        /\ Accepted(out)
        /\ WithinBounds(out.db)
        /\ db' = out.db
        /\ UNCHANGED <<procs, now>>

PostCityWithSession ==
    \E sid \in Cookies, t \in DriveTrips :
        LET out == WithSession(db, now, sid, PostCityReq(NoUser, t, " A ", Undef, Undef)) IN
        /\ procs = <<>>
        /\ Accepted(out)
        /\ WithinBounds(out.db)
        /\ db' = out.db
        /\ UNCHANGED <<procs, now>>

NextAuth ==
    \/ Register
    \/ VerifyEmail
    \/ Login
    \/ GetMe
    \/ ChangePassword
    \/ Logout
    \/ SessionCleanup
    \/ Tick

\* Accounts and their sessions over time.
SpecAuth == Init /\ [][NextAuth]_vars

NextAccount ==
    \/ Register
    \/ Login
    \/ PostTripWithSession
    \/ PostCityWithSession
    \/ DeleteAccount

\* Accounts with their trips and cities, and the deletion of accounts.
SpecAccount == Init /\ [][NextAccount]_vars

(* ------------------------- the contracts' terms ------------------------ *)

TripIds(d) == {t.id : t \in d.trips}
OwnerOf(d, t) == (CHOOSE x \in d.trips : x.id = t).user_id
IdsOf(d, t) == {c.id : c \in CitiesOf(d, t)}
MaxSortOrder(d, t) ==
    CHOOSE m \in {c.sort_order : c \in CitiesOf(d, t)} : \A c \in CitiesOf(d, t) : c.sort_order <= m

\* nextCityOf(tripId, cityId): 0 when cityId is last in the trip or not in it.
NextCityOf(d, t, c) ==
    LET cs == OrderedCities(d, t) IN
    IF FindIndex(cs, c) = 0 THEN 0 ELSE NextCityId(cs, FindIndex(cs, c))

\* The ids of the trip's cities in their current order.
OrderOf(d, t) == [i \in 1 .. Cardinality(CitiesOf(d, t)) |-> OrderedCities(d, t)[i].id]

PostCityReqs ==
    {PostCityReq(u, t, n, k, x) :
        u \in Requesters, t \in TripIdParams, n \in {Undef, " ", " A "},
        k \in {Undef, "-1", "0", "2", "abc"}, x \in {Undef, "x"}}

\* The Upserts of every trip's owner, with the given modes and notes.
OwnerLegReqs(d, modes, notes) ==
    {PutLegReq(OwnerOf(d, t), t, a, b, m, x) :
        t \in TripIds(d), a \in CityIdParams, b \in CityIdParams, m \in modes, x \in notes}

LegModes == {Undef, "teleport", "train", "car"}
LegNotes == {Undef, " x "}

(* ------------------------------- C1 ----------------------------------- *)
\* C1: after a successful Append to a trip with N cities, the new city's sort
\* key is 1 + the previous maximum sort key of the trip's cities, or 0 if N = 0.
C1_AppendSortKey ==
    \A r \in PostCityReqs :
        LET out == Served(db, r) IN
        Accepted(out) =>
            \A c \in out.p.res.rows :
                c.sort_order = IF CitiesOf(db, r.tripId) = {} THEN 0
                               ELSE MaxSortOrder(db, r.tripId) + 1

(* ------------------------------- C2 ----------------------------------- *)
\* The owner's Reorder of trip t with the list q of city ids.
OwnerReorder(d, t, q) == ReorderReq(OwnerOf(d, t), t, TRUE, Positions(q))

\* After the reorder, every listed city is followed by the next of the list
\* and the last of the list by none.
FollowsList(d, t, q) ==
    \A i \in 1 .. Len(q) :
        NextCityOf(d, t, q[i]) = IF i < Len(q) THEN q[i + 1] ELSE 0

\* The lists that hold every city of the trip once.
CompleteLists(d, t) == {q \in DistinctLists(IdsOf(d, t)) : Len(q) = Cardinality(IdsOf(d, t))}

NotNext(d, r) == r.toCityId # NextCityOf(d, r.tripId, r.fromCityId)

\* C3 as stated: Upsert fails with ValidationError whenever toCityId is not
\* nextCityOf(tripId, fromCityId), also when fromCityId is last or absent, for any
\* mode value, and then no leg row is inserted or changed.
C3_NotNextIsValidationError ==
    \A r \in OwnerLegReqs(db, LegModes, {Undef}) :
        NotNext(db, r) =>
            /\ Served(db, r).p.res.status = 400
            /\ Served(db, r).db.legs = db.legs

\* C3 as amended: such an Upsert fails and changes nothing; it fails with
\* ValidationError (400) when fromCityId is a city of the trip (also the last one)
\* or the request is malformed, and otherwise with NotFoundError (404, "from city
\* not found"), which happens only when fromCityId is not a city of the trip.
C3_NotNextFails ==
    \A r \in OwnerLegReqs(db, LegModes, {Undef}) :
        NotNext(db, r) =>
            LET out == Served(db, r) IN
            /\ out.db = db
            /\ out.p.res.status \in {400, 404}
            /\ r.fromCityId \in IdsOf(db, r.tripId) => out.p.res.status = 400
            /\ out.p.res.status = 404 =>
                  /\ out.p.res.error = "from city not found"
                  /\ r.fromCityId \notin IdsOf(db, r.tripId)

\* An owner's Upsert from a city to a city of the trip that is not its successor
\* is refused with 400, one from the last city with 400, one from an absent city
\* with 404.
C3_Witness ==
    \E t \in TripIds(db) :
        /\ Cardinality(IdsOf(db, t)) = 3
        /\ \E a, b \in IdsOf(db, t) :
              /\ NextCityOf(db, t, a) \notin {0, b}
              /\ a # b
              /\ Served(db, PutLegReq(OwnerOf(db, t), t, a, b, "train", Undef)).p.res.status = 400
        /\ \E a, b \in IdsOf(db, t) :
              /\ NextCityOf(db, t, a) = 0
              /\ Served(db, PutLegReq(OwnerOf(db, t), t, a, b, "car", Undef)).p.res.status = 400
        /\ \E a \in CityIdParams \ IdsOf(db, t), b \in IdsOf(db, t) :
              Served(db, PutLegReq(OwnerOf(db, t), t, a, b, "train", Undef)).p.res.status = 404

(* ------------------------------- C4 ----------------------------------- *)
\* C4: in every reachable state every stored leg connects a city to its
\* immediate successor in the trip's current order by (sort key, id).
C4_LegsAreAdjacent ==
    \A l \in db.legs : NextCityOf(db, l.trip_id, l.from_city_id) = l.to_city_id

ReorderReqs ==
    {ReorderReq(u, t, TRUE, Positions(q)) :
        u \in Users, t \in DriveTrips, q \in DistinctLists(DriveCities)}

DeleteCityReqs == {DeleteCityReq(u, t, c) : u \in Users, t \in DriveTrips, c \in CityIdParams}

\* C7: neither Reorder nor city Delete inserts, removes or alters a leg row.
C7_LegsKeptByReorderAndDelete ==
    \A r \in ReorderReqs \cup DeleteCityReqs : Served(db, r).db.legs = db.legs

\* Trip t holds the cities 1, 2, 3 in that order and the leg 1 -> 2: the Reorder
\* [3, 2, 1] is accepted, makes 2 the successor of 3 and keeps the leg; deleting
\* city 1 is accepted and keeps the leg that starts at it.
C7_Witness ==
    \E t \in TripIds(db) :
        /\ OrderOf(db, t) = <<1, 2, 3>>
        /\ LegRows(db, t, 1, 2) # {}
        /\ LET out == Served(db, OwnerReorder(db, t, <<3, 2, 1>>)) IN
              /\ Accepted(out)
              /\ NextCityOf(out.db, t, 3) = 2
              /\ NextCityOf(out.db, t, 1) = 0
              /\ LegRows(out.db, t, 1, 2) = LegRows(db, t, 1, 2)
        /\ LET out == Served(db, DeleteCityReq(OwnerOf(db, t), t, 1)) IN
              /\ Accepted(out)
              /\ CityRows(out.db, 1) = {}
              /\ LegRows(out.db, t, 1, 2) = LegRows(db, t, 1, 2)

(* ------------------------------- C8 ----------------------------------- *)
\* C8: a successful city Delete removes exactly the addressed city, which was a
\* city of the addressed trip, and leaves every other city row as it was.
C8_DeleteRemovesOneCity ==
    \A r \in DeleteCityReqs :
        LET out == Served(db, r) IN
        Accepted(out) =>
            /\ CityInTrip(db, r.cityId, r.tripId) # {}
            /\ out.db.cities = db.cities \ CityRows(db, r.cityId)
            /\ Cardinality(out.db.cities) = Cardinality(db.cities) - 1

\* The first of three cities with sort keys 0, 1, 2 is deleted: the keys 1 and 2
\* stay, a gap at 0.
C8_Witness ==
    \E t \in TripIds(db) :
        /\ Cardinality(IdsOf(db, t)) = 3
        /\ {c.sort_order : c \in CitiesOf(db, t)} = {0, 1, 2}
        /\ LET out == Served(db, DeleteCityReq(OwnerOf(db, t), t, OrderOf(db, t)[1])) IN
              /\ Accepted(out)
              /\ {c.sort_order : c \in CitiesOf(out.db, t)} = {1, 2}

(* ------------------------------- C5 ----------------------------------- *)
\* C5: in every reachable state, also while several Upserts of one triple are in
\* flight together, the ledger holds at most one leg row per (trip, from, to).
C5_OneLegPerTriple ==
    \A l \in db.legs : LegRows(db, l.trip_id, l.from_city_id, l.to_city_id) = {l}

(* ------------------------------- C9 ----------------------------------- *)
\* The bodies of a city Update: each field alone, and none.
UpdateBodies ==
    {[name |-> "B", nights |-> Undef, notes |-> Undef], [name |-> Undef, nights |-> "2", notes |-> Undef],
     [name |-> Undef, nights |-> Undef, notes |-> "x"], [name |-> Undef, nights |-> Undef, notes |-> Undef]}

\* P holds of every request user u can address to trip t that names city c (0,
\* an id of no city, or of a city of any trip) on a route that changes a city or
\* a leg.
EveryCityRequest(u, t, c, P(_)) ==
    /\ \A b \in UpdateBodies : P(PutCityReq(u, t, c, b.name, b.nights, b.notes))
    /\ P(DeleteCityReq(u, t, c))
    /\ P(DeleteLegReq(u, t, c))
    /\ \A x \in CityIdParams, m \in {"teleport", "train"} :
          P(PutLegReq(u, t, c, x, m, Undef)) /\ P(PutLegReq(u, t, x, c, m, Undef))
    /\ \A q \in DistinctLists(DriveCities \cup {c}) :
          (\E i \in 1 .. Len(q) : q[i] = c) => P(ReorderReq(u, t, TRUE, Positions(q)))

\* P holds of every request user u can address to trip t on a route that
\* changes the trip, a city or a leg.
EveryTripRequest(u, t, P(_)) ==
    /\ \A c \in CityIdParams, b \in UpdateBodies : P(PutCityReq(u, t, c, b.name, b.nights, b.notes))
    /\ \A c \in CityIdParams : P(DeleteCityReq(u, t, c)) /\ P(DeleteLegReq(u, t, c))
    /\ \A x, y \in CityIdParams, m \in {"teleport", "train"} : P(PutLegReq(u, t, x, y, m, Undef))
    /\ \A q \in DistinctLists(DriveCities) : P(ReorderReq(u, t, TRUE, Positions(q)))
    /\ P(ReorderReq(u, t, FALSE, <<>>))
    /\ \A n \in {Undef, " A "}, k \in {Undef, "abc"} : P(PostCityReq(u, t, n, k, Undef))
    /\ \A n \in {Undef, "B"}, x \in {Undef, "2025-01-01"} : P(PutTripReq(u, t, n, x))
    /\ P(DeleteTripReq(u, t))

\* User u owns no trip with id t: the trip is another user's, or there is none.
NotOwner(d, t, u) == \A x \in d.trips : x.id = t => x.user_id # u

Refused(r) == ~Accepted(Served(db, r)) /\ Served(db, r).db = db

\* C9: a mutating request on a trip, its cities or its legs from a user who
\* does not own the trip is rejected and leaves trips, cities and legs unchanged.
C9_NonOwnerRejected ==
    \A u \in Users, t \in TripIdParams :
        NotOwner(db, t, u) => EveryTripRequest(u, t, Refused)

\* User 2 addresses a trip of user 1 that has cities and a leg: the deletion of
\* the trip, of a city and of the leg are refused, like the rename of a city.
C9_Witness ==
    \E t \in TripIds(db) :
        /\ OwnerOf(db, t) = 1
        /\ Cardinality(IdsOf(db, t)) >= 2
        /\ \E l \in db.legs :
              /\ l.trip_id = t
              /\ NextCityOf(db, t, l.from_city_id) = l.to_city_id
              /\ Served(db, DeleteLegReq(2, t, l.from_city_id)).p.res.status = 404
              /\ Served(db, DeleteCityReq(2, t, l.from_city_id)).p.res.status = 404
              /\ Served(db, PutCityReq(2, t, l.from_city_id, "B", Undef, Undef)).p.res.status = 404
        /\ Served(db, DeleteTripReq(2, t)).p.res.status = 404

(* ------------------------------- C10 ---------------------------------- *)
\* Request r addressed to trip t instead.
ToTrip(r, t) == [r EXCEPT !.tripId = t]

Swap(x, c, e) == IF x = c THEN e ELSE x

\* Request r with city id e wherever it names city id c.
ToCity(r, c, e) ==
    CASE r.op \in {"update", "deleteCity"} -> [r EXCEPT !.cityId = Swap(@, c, e)]
      [] r.op = "legDelete" -> [r EXCEPT !.fromCityId = Swap(@, c, e)]
      [] r.op = "leg" -> [r EXCEPT !.fromCityId = Swap(@, c, e), !.toCityId = Swap(@, c, e)]
      [] r.op = "reorder" ->
            [r EXCEPT !.sortOrder = [i \in 1 .. Len(@) |-> [@[i] EXCEPT !.id = Swap(@, c, e)]]]

NoTripIds(d) == (1 .. MaxTrips + 1) \ TripIds(d)
NoCityIds(d) == (1 .. MaxCities + 1) \ {c.id : c \in d.cities}

\* The trip half: user u, trip t of another user, no trip m.
C10_TripHalf ==
    \A u \in Users, t \in TripIds(db), m \in NoTripIds(db) :
        LET SameAsMissing(r) == Served(db, r).p.res = Served(db, ToTrip(r, m)).p.res IN
        OwnerOf(db, t) # u => EveryTripRequest(u, t, SameAsMissing)

\* The city half: trip t and its owner, city c of another trip, no city e.
C10_CityHalf ==
    \A t \in TripIds(db), e \in NoCityIds(db) :
        \A c \in {x.id : x \in db.cities} \ IdsOf(db, t) :
            LET SameAsMissing(r) == Served(db, r).p.res = Served(db, ToCity(r, c, e)).p.res IN
            EveryCityRequest(OwnerOf(db, t), t, c, SameAsMissing)

\* C10: whatever the route and the body, the response to a request on a trip
\* of another user is the response to the same request on a trip id that no trip
\* has, and the response to a request naming a city of another trip is the
\* response to the same request naming a city id that no city has.
C10_NoExistenceLeak == C10_TripHalf /\ C10_CityHalf

\* Two trips with cities, one holding two cities: the owner's rename of the
\* other trip's city under this trip is refused with 404, as for an id no city has;
\* user 2 is refused the deletion of the trip with 404, as for an id no trip has.
C10_Witness ==
    \E t \in TripIds(db), c \in {x.id : x \in db.cities}, e \in NoCityIds(db), m \in NoTripIds(db) :
        /\ c \notin IdsOf(db, t)
        /\ Cardinality(IdsOf(db, t)) >= 2
        /\ OwnerOf(db, t) = 1
        /\ Served(db, PutCityReq(1, t, c, "B", Undef, Undef)).p.res.status = 404
        /\ Served(db, PutCityReq(1, t, e, "B", Undef, Undef)).p.res.status = 404
        /\ Served(db, DeleteTripReq(2, t)).p.res.status = 404
        /\ Served(db, DeleteTripReq(2, m)).p.res.status = 404

(* ------------------------------- C11 ---------------------------------- *)
\* The request is answered "not authenticated" by the handler's first step,
\* with the tables as they were.
Unauthenticated(r) ==
    LET s == Step(db, NewProc(r)) IN
    /\ s.p.pc = "done"
    /\ s.p.res = Err(401, "not authenticated")
    /\ s.db = db
    /\ Served(db, r) = s

\* C11: every city, trip and transportation operation issued without a valid
\* session is rejected as not authenticated before any read or write of trips,
\* cities or legs, whatever the ids and the body, and leaves them unchanged.
C11_NoSessionRejected ==
    /\ \A t \in TripIdParams : EveryTripRequest(NoUser, t, Unauthenticated)
    /\ \A n \in {Undef, " A "} : Unauthenticated(PostTripReq(NoUser, n, Undef))

\* A trip with two cities and a leg: without a session the deletion of the
\* leg, of a city and of the trip are answered 401, like a request with no
\* valid id at all.
C11_Witness ==
    \E t \in TripIds(db), l \in db.legs :
        /\ l.trip_id = t
        /\ NextCityOf(db, t, l.from_city_id) = l.to_city_id
        /\ Served(db, DeleteLegReq(NoUser, t, l.from_city_id)).p.res.status = 401
        /\ Served(db, DeleteCityReq(NoUser, t, l.from_city_id)).p.res.status = 401
        /\ Served(db, DeleteTripReq(NoUser, t)).p.res.status = 401
        /\ Served(db, PutLegReq(NoUser, 0, 0, 0, Undef, Undef)).p.res.status = 401
        /\ Accepted(Served(db, DeleteLegReq(OwnerOf(db, t), t, l.from_city_id)))

(* ------------------------------- C12 ---------------------------------- *)
\* C12: after the owner's trip Delete succeeds, the trip is absent and no city
\* whose owning trip is that trip and no leg of that trip remains in storage.
C12_TripDeleteCascades ==
    \A t \in TripIds(db) :
        LET out == Served(db, DeleteTripReq(OwnerOf(db, t), t)) IN
        Accepted(out) =>
            /\ TripRows(out.db, t) = {}
            /\ CitiesOf(out.db, t) = {}
            /\ {l \in out.db.legs : l.trip_id = t} = {}

(* ------------------------------- C13 ---------------------------------- *)
\* The sortOrder bodies of up to two entries, each with any city id and any index,
\* and the bodies a client builds from a list of distinct ids (index = position).
SortOrderBodies ==
    {<<>>}
    \cup {<<[id |-> a, index |-> i]>> : a \in DriveCities, i \in 0 .. MaxCities - 1}
    \cup {<<[id |-> a, index |-> i], [id |-> b, index |-> j]>> :
            a \in DriveCities, b \in DriveCities, i \in 0 .. MaxCities - 1, j \in 0 .. MaxCities - 1}
    \cup {Positions(q) : q \in DistinctLists(DriveCities)}

\* The sort key city c has in d.
SortKeyOf(d, c) == (CHOOSE x \in d.cities : x.id = c).sort_order

\* C13: after a successful Reorder every listed city's sort key is its
\* zero-based position in the request's list, for complete and partial lists.
C13_SortKeyIsPosition ==
    \A t \in TripIds(db), so \in SortOrderBodies :
        LET out == Served(db, ReorderReq(OwnerOf(db, t), t, TRUE, so)) IN
        Accepted(out) => \A i \in 1 .. Len(so) : SortKeyOf(out.db, so[i].id) = i - 1

(* ------------------------------- C14 ---------------------------------- *)
\* C14: a Reorder whose list holds an id that is not a city of the trip (no
\* city, or a city of another trip of the same user) fails with ValidationError (400).
C14_ForeignIdIsValidationError ==
    \A t \in TripIds(db), q \in DistinctLists(DriveCities) :
        (\E i \in 1 .. Len(q) : q[i] \notin IdsOf(db, t)) =>
            Served(db, OwnerReorder(db, t, q)).p.res.status = 400

(* ------------------------------- C15 ---------------------------------- *)
\* C15: a Reorder with an empty list is rejected with ValidationError (400) and
\* changes no sort key.
C15_EmptyListRejected ==
    \A t \in TripIds(db) :
        LET out == Served(db, OwnerReorder(db, t, <<>>)) IN
        /\ out.p.res.status = 400
        /\ out.db.cities = db.cities

(* ------------------------------- C16 ---------------------------------- *)
\* The bodies of a city Update, every field absent or present.
PartialBodies ==
    [name : {Undef, "B", " A "}, nights : {Undef, "0", "2"}, notes : {Undef, Null, " ", "x"}]

\* The city row with id c in d.
CityOf(d, c) == CHOOSE x \in d.cities : x.id = c

C17_BadNightsOrNoFields ==
    \A t \in TripIds(db) : \A c \in IdsOf(db, t) :
        /\ \A n \in {Undef, "B"}, x \in {Undef, "x"} :
              LET out == Served(db, PutCityReq(OwnerOf(db, t), t, c, n, "-1", x)) IN
              /\ out.p.res = Err(400, "nights must be a non-negative number")
              /\ out.db = db
        /\ LET out == Served(db, PutCityReq(OwnerOf(db, t), t, c, Undef, Undef, Undef)) IN
              /\ out.p.res = Err(400, "no fields to update")
              /\ out.db = db

\* A city named "A": the Update {name: "B", nights: -1} is refused and the name
\* stays, while {name: "B"} alone is accepted and changes it.
C17_Witness ==
    \E t \in TripIds(db) : \E c \in IdsOf(db, t) :
        /\ CityOf(db, c).name = "A"
        /\ Served(db, PutCityReq(OwnerOf(db, t), t, c, "B", "-1", Undef)).p.res.status = 400
        /\ CityOf(Served(db, PutCityReq(OwnerOf(db, t), t, c, "B", "-1", Undef)).db, c).name = "A"
        /\ Accepted(Served(db, PutCityReq(OwnerOf(db, t), t, c, "B", Undef, Undef)))
        /\ CityOf(Served(db, PutCityReq(OwnerOf(db, t), t, c, "B", Undef, Undef)).db, c).name = "B"
        /\ Served(db, PutCityReq(OwnerOf(db, t), t, c, Undef, Undef, Undef)).p.res.status = 400

(* ------------------------------- C18 ---------------------------------- *)
\* The request is answered NotFoundError for the city and changes nothing.
CityNotFound(r) ==
    /\ Served(db, r).p.res = Err(404, "city not found or unauthorized")
    /\ Served(db, r).db = db

\* C18: the owner's city Delete and city Update (whatever its body) addressed to
\* (tripId, cityId) where no city has that id or the city is of another trip fail
\* with NotFoundError and change nothing; and after Delete(T, c) has succeeded,
\* Delete(T2, c) and a second Delete(T, c) fail the same way.
C18_CityNotInTripNotFound ==
    \A t \in TripIds(db) :
        /\ \A c \in (1 .. MaxCities + 1) \ IdsOf(db, t) :
              /\ CityNotFound(DeleteCityReq(OwnerOf(db, t), t, c))
              /\ \A b \in PartialBodies :
                    CityNotFound(PutCityReq(OwnerOf(db, t), t, c, b.name, b.nights, b.notes))
        /\ \A c \in IdsOf(db, t), t2 \in TripIds(db) :
              LET first == Served(db, DeleteCityReq(OwnerOf(db, t), t, c))
                  second == Served(first.db, DeleteCityReq(OwnerOf(db, t2), t2, c))
              IN  /\ Accepted(first)
                  /\ second.p.res = Err(404, "city not found or unauthorized")
                  /\ second.db = first.db

\* Two trips of a user, city c in the first and not in the second: the Delete and
\* the rename of c under the second trip are refused with 404; once c is deleted
\* under its own trip, its Delete under the second trip is refused with 404 too.
C18_Witness ==
    \E t \in TripIds(db), t2 \in TripIds(db) :
        \E c \in IdsOf(db, t) \ IdsOf(db, t2) :
            /\ OwnerOf(db, t) = OwnerOf(db, t2)
            /\ IdsOf(db, t2) # {}
            /\ Served(db, DeleteCityReq(OwnerOf(db, t2), t2, c)).p.res.status = 404
            /\ Served(db, PutCityReq(OwnerOf(db, t2), t2, c, "B", Undef, Undef)).p.res.status = 404
            /\ LET first == Served(db, DeleteCityReq(OwnerOf(db, t), t, c)) IN
                  /\ Accepted(first)
                  /\ CityRows(first.db, c) = {}
                  /\ Served(first.db, DeleteCityReq(OwnerOf(db, t2), t2, c)).p.res.status = 404

(* ------------------------------- C19 ---------------------------------- *)
\* The owner's transportation Delete from city a of trip t succeeds: no leg from
\* a to its current successor is left, and every other row is as it was.
LegDeleted(d, t, a) ==
    LET out == Served(d, DeleteLegReq(OwnerOf(d, t), t, a)) IN
    /\ Accepted(out)
    /\ LegRows(out.db, t, a, NextCityOf(d, t, a)) = {}
    /\ out.db.legs = d.legs \ LegRows(d, t, a, NextCityOf(d, t, a))
    /\ out.db.cities = d.cities
    /\ out.db.trips = d.trips

\* C19 as stated: whenever fromCityId has no successor in the current order (it
\* is last, or absent from the trip) the Delete fails with ValidationError and
\* the ledger is unchanged; otherwise it succeeds as LegDeleted says.
C19_NoSuccessorIsValidationError ==
    \A t \in TripIds(db), a \in 1 .. MaxCities + 1 :
        IF NextCityOf(db, t, a) = 0
        THEN LET out == Served(db, DeleteLegReq(OwnerOf(db, t), t, a)) IN
             out.p.res.status = 400 /\ out.db = db
        ELSE LegDeleted(db, t, a)

\* C19 as amended: when fromCityId is the last city of the trip the Delete fails
\* with ValidationError (400, "no next city for this leg"); when fromCityId is
\* not a city of the trip it fails with NotFoundError (404, "from city not
\* found"); both leave the ledger unchanged; otherwise it succeeds as LegDeleted
\* says, whether or not the leg existed.
C19_LegDelete ==
    \A t \in TripIds(db), a \in 1 .. MaxCities + 1 :
        LET out == Served(db, DeleteLegReq(OwnerOf(db, t), t, a)) IN
        IF a \notin IdsOf(db, t)
        THEN out.p.res = Err(404, "from city not found") /\ out.db = db
        ELSE IF NextCityOf(db, t, a) = 0
        THEN out.p.res = Err(400, "no next city for this leg") /\ out.db = db
        ELSE LegDeleted(db, t, a)

\* A trip with a leg from a city to its successor and a second leg: the Delete
\* removes the first and keeps the second; the Delete from a city with a
\* successor and no leg is accepted and changes nothing; from the last city it
\* is refused with 400, from a city id outside the trip with 404.
C19_Witness ==
    \E t \in TripIds(db) :
        /\ \E l \in db.legs :
              /\ l.trip_id = t
              /\ NextCityOf(db, t, l.from_city_id) = l.to_city_id
              /\ db.legs # {l}
              /\ Served(db, DeleteLegReq(OwnerOf(db, t), t, l.from_city_id)).db.legs = db.legs \ {l}
        /\ \E a \in IdsOf(db, t) :
              /\ NextCityOf(db, t, a) # 0
              /\ LegRows(db, t, a, NextCityOf(db, t, a)) = {}
              /\ Accepted(Served(db, DeleteLegReq(OwnerOf(db, t), t, a)))
              /\ Served(db, DeleteLegReq(OwnerOf(db, t), t, a)).db = db
        /\ \E a \in IdsOf(db, t) :
              /\ NextCityOf(db, t, a) = 0
              /\ Served(db, DeleteLegReq(OwnerOf(db, t), t, a)).p.res.status = 400
        /\ \E a \in (1 .. MaxCities + 1) \ IdsOf(db, t) :
              Served(db, DeleteLegReq(OwnerOf(db, t), t, a)).p.res.status = 404

(* ------------------------------- C20 ---------------------------------- *)
\* A Reorder of all cities of trip 1 (each once, index = position) that runs
\* together with an Append to the trip or the Delete of one of its cities: either
\* request arrives first and the other arrives before the first has responded.
RaceTrip == CHOOSE t \in DriveTrips : \A x \in DriveTrips : t <= x

RaceReorders(d) == {OwnerReorder(d, RaceTrip, q) : q \in CompleteLists(d, RaceTrip) \ {<<>>}}

RaceOthers(d) ==
    {PostCityReq(OwnerOf(d, RaceTrip), RaceTrip, " A ", Undef, Undef)}
    \cup {DeleteCityReq(OwnerOf(d, RaceTrip), RaceTrip, c) : c \in IdsOf(d, RaceTrip)}

ArriveRace ==
    /\ RaceTrip \in TripIds(db)
    /\ \/ /\ procs = <<>>
          /\ \E r \in RaceReorders(db) \cup RaceOthers(db) : procs' = <<NewProc(r)>>
       \/ /\ Len(procs) = 1
          /\ procs[1].pc # "done"
          /\ \E r \in IF procs[1].req.op = "reorder" THEN RaceOthers(db) ELSE RaceReorders(db) :
                procs' = Append(procs, NewProc(r))
    /\ UNCHANGED <<db, now>>

\* One of the requests runs up to its next awaited storage call; a request that
\* has responded stays on record.
ProceedRace ==
    \E i \in 1 .. Len(procs) :
        LET s == Step(db, procs[i]) IN
        /\ procs[i].pc # "done"
        /\ WithinBounds(s.db)
        /\ db' = s.db
        /\ procs' = [procs EXCEPT ![i] = s.p]
        /\ UNCHANGED now

NextRace ==
    \/ PostTrip
    \/ PostCity
    \/ PutCitiesOrder
    \/ ArriveRace
    \/ ProceedRace

SpecRace == Init /\ [][NextRace]_vars

\* Both requests of the race have responded, and both were accepted.
RaceOver ==
    /\ Len(procs) = 2
    /\ \A i \in 1 .. 2 : procs[i].pc = "done" /\ procs[i].res.status \in {200, 201}

\* The Reorder of the race and the other request, whichever arrived first.
RaceReorder == IF procs[1].req.op = "reorder" THEN procs[1] ELSE procs[2]
RaceOther == IF procs[1].req.op = "reorder" THEN procs[2] ELSE procs[1]

\* The sort keys of trip 1 are 0 .. n-1, each once.
Dense(d) ==
    /\ \A x, y \in CitiesOf(d, RaceTrip) : x.sort_order = y.sort_order => x = y
    /\ {c.sort_order : c \in CitiesOf(d, RaceTrip)} = 0 .. Cardinality(CitiesOf(d, RaceTrip)) - 1

\* C20: a Reorder that runs together with an Append or a city Delete on the same
\* trip and is accepted like it leaves, whatever the interleaving, every listed
\* city that remains with its index from the list, and an appended city that the
\* list does not hold with the key 0, which the first of the list has too. So
\* after the race the keys of the trip are dense only when the Append had
\* inserted its city before the Reorder listed it, or the Delete took the city
\* listed last: otherwise two cities share a key or a key is skipped.
C20_RaceLeavesKeysNotDense ==
    RaceOver =>
        LET so == RaceReorder.req.sortOrder
            o == RaceOther
        IN  /\ \A i \in 1 .. Len(so) :
                  CityRows(db, so[i].id) # {} => SortKeyOf(db, so[i].id) = so[i].index
            /\ o.req.op = "append" =>
                  /\ (\A i \in 1 .. Len(so) : so[i].id # o.res.id) =>
                        /\ SortKeyOf(db, o.res.id) = DefaultSortOrder
                        /\ SortKeyOf(db, so[1].id) = SortKeyOf(db, o.res.id)
                  /\ Dense(db) <=> \E i \in 1 .. Len(so) : so[i].id = o.res.id
            /\ o.req.op = "deleteCity" =>
                  /\ CityRows(db, o.req.cityId) = {}
                  /\ Dense(db) <=> o.req.cityId = so[Len(so)].id

\* A Reorder of the two cities of trip 1 and an Append that arrived while it was
\* being served have both been accepted: the appended city and the first of the
\* list share the key 0.
C20_Witness ==
    /\ RaceOver
    /\ procs[1].req.op = "reorder"
    /\ Len(procs[1].req.sortOrder) = 2
    /\ procs[2].req.op = "append"
    /\ \E x, y \in CitiesOf(db, RaceTrip) : x # y /\ x.sort_order = y.sort_order

\* A Reorder of the three cities of trip 1 and the Delete of the city listed
\* second, which arrived while the Reorder was being served, have both been
\* accepted: the keys 0 and 2 remain.
C20_DeleteLeavesGap ==
    /\ RaceOver
    /\ procs[1].req.op = "reorder"
    /\ Len(procs[1].req.sortOrder) = 3
    /\ procs[2].req.op = "deleteCity"
    /\ {c.sort_order : c \in CitiesOf(db, RaceTrip)} = {0, 2}

(* ------------------------------- C21 ---------------------------------- *)
\* One request on trip 1, from its owner, another user or nobody, served step
\* by step; each storage call it awaits either returns or rejects.
FaultReqs(d) ==
    LET t == RaceTrip IN
    UNION {{PostCityReq(u, t, " A ", Undef, Undef), PutTripReq(u, t, "B", Undef),
            DeleteTripReq(u, t), PostTripReq(u, " A ", Undef),
            ReorderReq(u, t, TRUE, Positions(OrderOf(d, t)))}
           \cup {PutCityReq(u, t, c, "B", Undef, Undef) : c \in 1 .. MaxCities}
           \cup {DeleteCityReq(u, t, c) : c \in 1 .. MaxCities}
           \cup {DeleteLegReq(u, t, c) : c \in 1 .. MaxCities}
           \cup {PutLegReq(u, t, c, NextCityOf(d, t, c), m, Undef) :
                    c \in 1 .. MaxCities, m \in {"car", "teleport"}} :
           u \in {OwnerOf(d, t), NoUser}}

ArriveFault ==
    /\ RaceTrip \in TripIds(db)
    /\ procs = <<>>
    /\ \E r \in FaultReqs(db) : procs' = <<NewProc(r)>>
    /\ UNCHANGED <<db, now>>

StorageFault ==
    \E i \in 1 .. Len(procs) :
        /\ procs[i].pc # "done"
        /\ db' = StorageFails(db, procs[i]).db
        /\ procs' = [procs EXCEPT ![i] = StorageFails(db, procs[i]).p]
        /\ UNCHANGED now

NextFault ==
    \/ PostTrip
    \/ PostCity
    \/ PutTransportation
    \/ ArriveFault
    \/ ProceedRace
    \/ StorageFault

SpecFault == Init /\ [][NextFault]_vars

\* C21: a city, trip or transportation request during which a storage call
\* failed has answered 500 "server error" (StorageError), never a success; a
\* request none of whose storage calls failed has not answered 500; and every
\* request of a user has answered with a success, 400 (ValidationError), 404
\* (NotFoundError) or 500, one without a session with 401 unless storage failed.
C21_StorageFailureSurfaces ==
    \A i \in 1 .. Len(procs) :
        procs[i].pc = "done" =>
            /\ procs[i].failed => procs[i].res = ServerError
            /\ ~procs[i].failed => procs[i].res.status # 500
            /\ procs[i].req.user # NoUser => procs[i].res.status \in {200, 201, 400, 404, 500}
            /\ procs[i].req.user = NoUser => procs[i].res.status \in {401, 500}

\* The owner's Reorder of three cities whose second UPDATE rejected: the request
\* has answered 500 though the first entry had been written.
C21_Witness ==
    /\ Len(procs) = 1
    /\ procs[1].pc = "done"
    /\ procs[1].failed
    /\ procs[1].req.op = "reorder"
    /\ Len(procs[1].req.sortOrder) = 3
    /\ procs[1].loc.i = 2
    /\ procs[1].res = ServerError

(* ------------------------------- C22 ---------------------------------- *)
\* P holds of one request of every trip, city and transportation route on trip
\* t; the user is the one the session lookup gives.
OneOfEachRoute(t, P(_)) ==
    /\ P(PostTripReq(NoUser, " A ", Undef))
    /\ P(PutTripReq(NoUser, t, "B", Undef))
    /\ P(DeleteTripReq(NoUser, t))
    /\ P(PostCityReq(NoUser, t, " A ", Undef, Undef))
    /\ P(PutCityReq(NoUser, t, 1, "B", Undef, Undef))
    /\ P(ReorderReq(NoUser, t, TRUE, Positions(<<1>>)))
    /\ P(DeleteCityReq(NoUser, t, 1))
    /\ P(PutLegReq(NoUser, t, 1, 2, "train", Undef))
    /\ P(DeleteLegReq(NoUser, t, 1))

\* The age of session row x at time t exceeds the maximum.
TooOld(x, t) == t - x.createdAt > SESSION_MAX_AGE

\* C22: a request that carries a session older than SESSION_MAX_AGE is answered
\* 401 on every route that looks the session up, the lookup deletes that session
\* row and no other, and the session is accepted at no time afterwards.
C22_ExpiredSessionRejected ==
    \A x \in db.sessions :
        TooOld(x, now) =>
            LET g == GetSession(db, now, x.sid)
                Rejected(req) ==
                    /\ Served(db, req).p.res = Err(401, "not authenticated")
                    /\ Served(db, req).db = g.db
                RejectedWithSession(req) ==
                    /\ WithSession(db, now, x.sid, req).p.res = Err(401, "not authenticated")
                    /\ WithSession(db, now, x.sid, req).db = g.db
            IN  /\ g.user = NoUser
                /\ g.db = [db EXCEPT !.sessions = @ \ {x}]
                /\ \A t \in Instants : GetSession(g.db, t, x.sid).user = NoUser
                /\ Rejected(MeReq(x.sid, now))
                /\ Rejected(ChangePasswordReq(x.sid, "secret1", "secret2", now))
                /\ Rejected(DeleteAccountReq(x.sid, now))
                /\ \A t \in TripIdParams : OneOfEachRoute(t, RejectedWithSession)

\* Two sessions of verified users, one a millisecond older than the maximum
\* and one exactly of the maximum age: GET /api/me with the first is answered 401
\* and deletes it, with the second it is answered 200.
C22_Witness ==
    \E x, y \in db.sessions :
        /\ now - x.createdAt = SESSION_MAX_AGE + 1
        /\ now - y.createdAt = SESSION_MAX_AGE
        /\ Served(db, MeReq(x.sid, now)).p.res.status = 401
        /\ Served(db, MeReq(x.sid, now)).db.sessions = db.sessions \ {x}
        /\ Served(db, MeReq(y.sid, now)).p.res.status = 200

(* ------------------------------- C23 ---------------------------------- *)
\* The cookies a request can carry: none, every sid issued, one never issued.
CookieParams == 0 .. MaxSessions + 1

\* The sessions of the user whose session has the id sid.
SessionsOfUserOf(d, sid) ==
    {y \in d.sessions : \E x \in d.sessions : x.sid = sid /\ x.user_id = y.user_id}

\* C23 as stated: a successful password change deletes every session of the
\* user (the one of the request too) and no session of another user; a rejected
\* password change deletes no session.
C23_PasswordChangeDeletesSessions ==
    \A sid \in CookieParams, cur \in {Undef, "secret1", "secret2"}, new \in {Undef, "weak", "secret2"} :
        LET out == Served(db, ChangePasswordReq(sid, cur, new, now)) IN
        IF Accepted(out)
        THEN /\ SessionsOfUserOf(db, sid) # {}
             /\ out.db.sessions = db.sessions \ SessionsOfUserOf(db, sid)
        ELSE out.db.sessions = db.sessions

\* C23 as amended: a successful password change deletes every session of the
\* user (the one of the request too) and no session of another user; a rejected
\* password change changes no user and deletes no session, except that one made
\* with a session older than the maximum age is answered 401 and deletes that
\* session (as every session lookup does).
C23_PasswordChange ==
    \A sid \in CookieParams, cur \in {Undef, "secret1", "secret2"}, new \in {Undef, "weak", "secret2"} :
        LET out == Served(db, ChangePasswordReq(sid, cur, new, now)) IN
        IF Accepted(out)
        THEN /\ SessionsOfUserOf(db, sid) # {}
             /\ out.db.sessions = db.sessions \ SessionsOfUserOf(db, sid)
             /\ {u.id : u \in out.db.users} = {u.id : u \in db.users}
        ELSE /\ out.db.users = db.users
             /\ out.db.sessions = db.sessions \ {x \in db.sessions : x.sid = sid /\ TooOld(x, now)}
             /\ out.db.sessions # db.sessions => out.p.res = Err(401, "not authenticated")

\* One user with a session older than the maximum age and a younger one, and a
\* session of another user: the password change with the younger session is
\* accepted and leaves only the other user's session; with a wrong current
\* password it is refused and deletes nothing; with the old session it is
\* answered 401 and deletes that session.
C23_Witness ==
    \E x, y, z \in db.sessions :
        /\ x.user_id = y.user_id /\ x.user_id # z.user_id
        /\ TooOld(x, now) /\ ~TooOld(y, now)
        /\ Accepted(Served(db, ChangePasswordReq(y.sid, "secret1", "secret2", now)))
        /\ Served(db, ChangePasswordReq(y.sid, "secret1", "secret2", now)).db.sessions = {z}
        /\ Served(db, ChangePasswordReq(y.sid, "secret2", "secret2", now)).p.res.status = 401
        /\ Served(db, ChangePasswordReq(y.sid, "secret2", "secret2", now)).db = db
        /\ Served(db, ChangePasswordReq(x.sid, "secret1", "secret2", now)).p.res.status = 401
        /\ Served(db, ChangePasswordReq(x.sid, "secret1", "secret2", now)).db.sessions = {y, z}

(* ------------------------------- C24 ---------------------------------- *)
\* The ids of the trips of user u.
TripsOfUser(d, u) == {t.id : t \in {x \in d.trips : x.user_id = u}}

\* C24: a successful DELETE /api/me removes the user of the session, every
\* session and trip of that user and every city of those trips, and leaves every
\* other user, session, trip and city as it was; a rejected one (401) changes no
\* user, trip or city.
C24_AccountDeletion ==
    \A sid \in CookieParams :
        LET out == Served(db, DeleteAccountReq(sid, now)) IN
        IF Accepted(out)
        THEN \E x \in db.sessions :
                /\ x.sid = sid
                /\ UserRows(db, x.user_id) # {}
                /\ out.db.users = {v \in db.users : v.id # x.user_id}
                /\ out.db.sessions = {y \in db.sessions : y.user_id # x.user_id}
                /\ out.db.trips = {t \in db.trips : t.user_id # x.user_id}
                /\ out.db.cities = {c \in db.cities : c.trip_id \notin TripsOfUser(db, x.user_id)}
        ELSE /\ out.p.res = Err(401, "not authenticated")
             /\ out.db.users = db.users
             /\ out.db.trips = db.trips
             /\ out.db.cities = db.cities
             /\ out.db.sessions = db.sessions \ {x \in db.sessions : x.sid = sid /\ TooOld(x, now)}

\* Two users, each with a session, a trip and a city in it: the deletion of the
\* first account removes its user, session, trip and city and keeps the second
\* user's.
C24_Witness ==
    \E x, y \in db.sessions :
        /\ x.user_id # y.user_id
        /\ \A u \in {x.user_id, y.user_id} :
              \E c \in db.cities : c.trip_id \in TripsOfUser(db, u)
        /\ LET out == Served(db, DeleteAccountReq(x.sid, now)) IN
              /\ Accepted(out)
              /\ UserRows(out.db, x.user_id) = {}
              /\ out.db.sessions = {y}
              /\ {t.user_id : t \in out.db.trips} = {y.user_id}
              /\ out.db.cities # {}
              /\ out.db.cities # db.cities
              /\ \A c \in out.db.cities : c.trip_id \in TripsOfUser(db, y.user_id)

(* ------------------------------- C25 ---------------------------------- *)
\* C25: the owner's Append with nights 0 or -1, and the owner's Update of a city
\* of the trip to nights 0 or -1, fail with ValidationError (400) and store nothing.
C25_NightsBelowOneRejected ==
    \A t \in TripIds(db), k \in {"0", "-1"} :
        /\ LET out == Served(db, PostCityReq(OwnerOf(db, t), t, " A ", k, Undef)) IN
              out.p.res.status = 400 /\ out.db = db
        /\ \A c \in IdsOf(db, t) :
              LET out == Served(db, PutCityReq(OwnerOf(db, t), t, c, Undef, k, Undef)) IN
              out.p.res.status = 400 /\ out.db = db

(* ------------------------------- C26 ---------------------------------- *)
\* Logout with the cookie sid succeeds and removes that session row and nothing
\* else; after it every route that looks the session up answers 401 to sid, at
\* every time; logout without a cookie succeeds and changes nothing.
LogoutEndsSession ==
    /\ \A sid \in 1 .. MaxSessions + 1 :
          LET out == Served(db, LogoutReq(sid))
              RejectedAfter(req) ==
                  WithSession(out.db, now, sid, req).p.res = Err(401, "not authenticated")
          IN  /\ Accepted(out)
              /\ out.db = [db EXCEPT !.sessions = {x \in @ : x.sid # sid}]
              /\ \A t \in Instants : GetSession(out.db, t, sid).user = NoUser
              /\ Served(out.db, MeReq(sid, now)).p.res = Err(401, "not authenticated")
              /\ Served(out.db, ChangePasswordReq(sid, "secret1", "secret2", now)).p.res.status = 401
              /\ \A t \in TripIdParams : OneOfEachRoute(t, RejectedAfter)
    /\ Accepted(Served(db, LogoutReq(NoCookie)))
    /\ Served(db, LogoutReq(NoCookie)).db = db

\* A session id that was issued and has no row gets none in the next state:
\* no step brings a session back.
SessionStaysAbsent ==
    \A sid \in Cookies :
        (sid <= db.seq.sessions /\ \A x \in db.sessions : x.sid # sid) =>
            \A x \in db'.sessions : x.sid # sid

\* C26: after logout with a session cookie that session row is absent and
\* every later request carrying that session id is unauthenticated, at every
\* later time and whatever happens in between; logout without a session
\* succeeds and changes no session.
C26_LogoutIsFinal == []LogoutEndsSession /\ [][SessionStaysAbsent]_vars

\* Two sessions that GET /api/me accepts: after the logout of the first, GET
\* /api/me answers 401 to the first and 200 to the second.
C26_Witness ==
    \E x, y \in db.sessions :
        /\ x # y
        /\ Accepted(Served(db, MeReq(x.sid, now)))
        /\ Accepted(Served(db, MeReq(y.sid, now)))
        /\ LET out == Served(db, LogoutReq(x.sid)) IN
              /\ out.db.sessions = db.sessions \ {x}
              /\ Served(out.db, MeReq(x.sid, now)).p.res.status = 401
              /\ Accepted(Served(out.db, MeReq(y.sid, now)))

(* ------------------------------- C27 ---------------------------------- *)
\* The tokens a request can carry: none, every token issued, one never issued.
TokenParams == 0 .. MaxUsers + 1

\* The users who can be verified with the token at time t: not yet verified,
\* holding that token, and the token not expired.
Verifiable(d, token, t) ==
    {u \in d.users : /\ token # NullToken
                     /\ u.verification_token = token
                     /\ u.verified = 0
                     /\ t < u.verification_expires}

\* C27: email verification succeeds exactly with the token of a user who is not
\* yet verified and whose token has not expired; it then marks that one user
\* verified, clears the token and changes nothing else, and the same token is
\* rejected at every time afterwards; a rejected verification changes nothing.
C27_VerificationOnce ==
    \A token \in TokenParams :
        LET out == Served(db, VerifyEmailReq(token, now)) IN
        /\ Accepted(out) <=> Verifiable(db, token, now) # {}
        /\ ~Accepted(out) => out.p.res.status = 400 /\ out.db = db
        /\ Accepted(out) =>
              /\ \E u \in db.users :
                    /\ Verifiable(db, token, now) = {u}
                    /\ out.db = [db EXCEPT !.users = (@ \ {u}) \cup
                                    {[u EXCEPT !.verified = 1, !.verification_token = NullToken]}]
              /\ \A t \in Instants :
                    /\ Served(out.db, VerifyEmailReq(token, t)).p.res.status = 400
                    /\ Served(out.db, VerifyEmailReq(token, t)).db = out.db

\* Two users not yet verified, the token of one expired and of the other not:
\* the first token is rejected, the second is accepted, and after it the user
\* can log in, which was refused before (403).
C27_Witness ==
    \E u, v \in db.users :
        /\ u.verified = 0 /\ v.verified = 0
        /\ u.verification_expires = now
        /\ v.verification_expires > now
        /\ Served(db, VerifyEmailReq(u.verification_token, now)).p.res.status = 400
        /\ Served(db, LoginReq(v.email, "secret1", now)).p.res.status = 403
        /\ LET out == Served(db, VerifyEmailReq(v.verification_token, now)) IN
              /\ Accepted(out)
              /\ Accepted(Served(out.db, LoginReq(v.email, "secret1", now)))
              /\ Served(out.db, VerifyEmailReq(v.verification_token, now)).p.res.status = 400

(* ------------------------------- C28 ---------------------------------- *)
\* C28: the session cleanup job deletes exactly the sessions whose age exceeds
\* SESSION_MAX_AGE and changes nothing else; no session it deletes would still
\* be accepted by the session lookup at that time, and every session it keeps
\* whose user exists is accepted.
C28_CleanupDeletesExpired ==
    LET out == Cleanup(db, now) IN
    /\ out = [db EXCEPT !.sessions = {x \in @ : now - x.createdAt <= SESSION_MAX_AGE}]
    /\ \A x \in db.sessions \ out.sessions :
          /\ now - x.createdAt > SESSION_MAX_AGE
          /\ GetSession(db, now, x.sid).user = NoUser
    /\ \A x \in out.sessions :
          UserRows(db, x.user_id) # {} => GetSession(db, now, x.sid).user = x.user_id

\* A session a millisecond older than the maximum age and one of exactly the
\* maximum age: the job deletes the first and keeps the second, which the
\* session lookup still accepts.
C28_Witness ==
    \E x, y \in db.sessions :
        /\ now - x.createdAt = SESSION_MAX_AGE + 1
        /\ now - y.createdAt = SESSION_MAX_AGE
        /\ x \notin Cleanup(db, now).sessions
        /\ y \in Cleanup(db, now).sessions
        /\ GetSession(db, now, y.sid).user = y.user_id

(* ------------------------------- C29 ---------------------------------- *)
\* C29: a session whose age equals SESSION_MAX_AGE exactly is treated as
\* expired: the session lookup does not accept it.
C29_ExactAgeIsExpired ==
    \A x \in db.sessions :
        now - x.createdAt = SESSION_MAX_AGE => GetSession(db, now, x.sid).user = NoUser

(* ------------------------------- C30 ---------------------------------- *)
\* The position of the first entry of q that is not a city of trip t; 0 when
\* every entry is one.
FirstForeign(d, t, q) ==
    IF \A i \in 1 .. Len(q) : q[i] \in IdsOf(d, t) THEN 0
    ELSE CHOOSE i \in 1 .. Len(q) :
            /\ q[i] \notin IdsOf(d, t)
            /\ \A j \in 1 .. i - 1 : q[j] \in IdsOf(d, t)

\* The lists of distinct ids of cities and of one id that no city has.
ReorderLists == DistinctLists(1 .. MaxCities + 1)

\* C30: the owner's Reorder whose list holds an id that is not a city of the
\* trip is rejected at the first such entry: exactly the entries before it have
\* their new sort keys (their positions), every city that is not among them is
\* as it was, and so are the trips and the legs.
C30_ReorderAppliesPrefix ==
    \A t \in TripIds(db), q \in ReorderLists :
        LET k == FirstForeign(db, t, q)
            out == Served(db, OwnerReorder(db, t, q))
        IN  k # 0 =>
                /\ out.p.res = Err(404, "city not found or unauthorized")
                /\ \A i \in 1 .. k - 1 : SortKeyOf(out.db, q[i]) = i - 1
                /\ \A c \in db.cities : (\A i \in 1 .. k - 1 : q[i] # c.id) => c \in out.db.cities
                /\ {c.id : c \in out.db.cities} = {c.id : c \in db.cities}
                /\ out.db.trips = db.trips
                /\ out.db.legs = db.legs

\* A trip whose cities 1, 2, 3 are in that order: the Reorder [3, 2, x, 1] with x
\* no city of the trip is rejected, and has given 3 the key 0 and 2 the key 1 while
\* 1 keeps the key 0.
C30_Witness ==
    \E t \in TripIds(db) : \E x \in (1 .. MaxCities + 1) \ IdsOf(db, t) :
        /\ OrderOf(db, t) = <<1, 2, 3>>
        /\ {c.sort_order : c \in CitiesOf(db, t)} = {0, 1, 2}
        /\ LET out == Served(db, OwnerReorder(db, t, <<3, 2, x, 1>>)) IN
              /\ out.p.res.status = 404
              /\ SortKeyOf(out.db, 3) = 0
              /\ SortKeyOf(out.db, 2) = 1
              /\ SortKeyOf(out.db, 1) = 0
              /\ out.db # db

(* ------------------------------- C31 ---------------------------------- *)
\* Two Reorders of all cities of trip 1 (each once, index = position) in flight
\* together: the second arrives before the first has responded.
ArriveReorders ==
    /\ RaceTrip \in TripIds(db)
    /\ \/ /\ procs = <<>>
          /\ \E r \in RaceReorders(db) : procs' = <<NewProc(r)>>
       \/ /\ Len(procs) = 1
          /\ procs[1].pc # "done"
          /\ \E r \in RaceReorders(db) : procs' = Append(procs, NewProc(r))
    /\ UNCHANGED <<db, now>>

NextReorders ==
    \/ PostTrip
    \/ PostCity
    \/ ArriveReorders
    \/ ProceedRace

SpecReorders == Init /\ [][NextReorders]_vars

\* Both Reorders have responded, and both were accepted.
ReordersOver ==
    /\ Len(procs) = 2
    /\ \A i \in 1 .. 2 :
          procs[i].req.op = "reorder" /\ procs[i].pc = "done" /\ procs[i].res.status = 200

\* The ids a Reorder lists, in its order.
ListOf(p) == [i \in 1 .. Len(p.req.sortOrder) |-> p.req.sortOrder[i].id]

\* C31: when two Reorders of the same trip, each listing all of its cities, run
\* together and both succeed, the trip's final order is the order one of the
\* two requested.
C31_OneRequestedOrderWins ==
    ReordersOver => OrderOf(db, RaceTrip) \in {ListOf(procs[1]), ListOf(procs[2])}

\* What the Reorders do leave: every city carries the index one of the two
\* lists gave it (the last write to each row).
C31_EachKeyFromOneList ==
    ReordersOver =>
        \A c \in CitiesOf(db, RaceTrip) :
            \E i \in 1 .. 2 : \E k \in 1 .. Len(procs[i].req.sortOrder) :
                procs[i].req.sortOrder[k] = [id |-> c.id, index |-> c.sort_order]

(* ------------------------------- C32 ---------------------------------- *)
\* What request r, served in the current state, does to the leg rows: an
\* accepted Upsert of a triple that has a leg changes that row's mode and notes
\* and nothing else; one of a triple without a leg adds one row, for that
\* triple; a Transportation Delete removes only rows of the triple from the city
\* to its successor and changes no row; every other request, and every rejected
\* one, leaves the leg rows as they are.
LegLifeCycle(r) ==
    LET out == Served(db, r)
        rows == LegRows(db, r.tripId, r.fromCityId, r.toCityId)
    IN  IF r.op = "leg" /\ Accepted(out)
        THEN IF rows # {}
             THEN /\ \E l \in rows :
                        out.db.legs = (db.legs \ {l}) \cup
                            {[l EXCEPT !.mode = r.mode, !.notes = CleanLegNotes(r.notes)]}
                  /\ out.db.seq.legs = db.seq.legs
             ELSE \E l \in out.db.legs :
                    /\ \A x \in db.legs : x.id # l.id
                    /\ out.db.legs = db.legs \cup {l}
                    /\ l.trip_id = r.tripId
                    /\ l.from_city_id = r.fromCityId
                    /\ l.to_city_id = r.toCityId
                    /\ l.mode = r.mode
                    /\ l.notes = CleanLegNotes(r.notes)
        ELSE IF r.op = "legDelete"
        THEN /\ out.db.legs \subseteq db.legs
             /\ db.legs \ out.db.legs \subseteq
                    LegRows(db, r.tripId, r.fromCityId, NextCityOf(db, r.tripId, r.fromCityId))
        ELSE out.db.legs = db.legs

FirstCityOf(d, t) ==
    IF CitiesOf(d, t) = {} THEN 0
    ELSE (CHOOSE c \in CitiesOf(d, t) : \A x \in CitiesOf(d, t) \ {c} : Before(c, x)).id

\* The cities met by following nextCityOf from city c, at most n of them.
RECURSIVE WalkFrom(_, _, _, _)
WalkFrom(d, t, c, n) ==
    IF c = 0 \/ n = 0 THEN <<>>
    ELSE <<c>> \o WalkFrom(d, t, NextCityOf(d, t, c), n - 1)

\* C33: in every reachable state, also where cities of a trip share a sort
\* key, (sort key, id) orders the cities of every trip strictly, and following
\* nextCityOf from the first city visits every city of the trip exactly once, in
\* that order; only the last city has no successor, and nextCityOf of a city
\* that is not in the trip is none.
C33_AdjacencyIsLinear ==
    \A t \in TripIdParams :
        LET S == CitiesOf(db, t)
            w == WalkFrom(db, t, FirstCityOf(db, t), MaxCities + 1)
        IN  /\ \A x, y \in S : x # y => (Before(x, y) <=> ~Before(y, x))
            /\ Len(w) = Cardinality(S)
            /\ {w[i] : i \in 1 .. Len(w)} = IdsOf(db, t)
            /\ \A i, j \in 1 .. Len(w) : i < j => w[i] # w[j]
            /\ \A i \in 1 .. Len(w) - 1 :
                  \E x, y \in S : x.id = w[i] /\ y.id = w[i + 1] /\ Before(x, y)
            /\ \A c \in IdsOf(db, t) : NextCityOf(db, t, c) = 0 <=> c = w[Len(w)]
            /\ \A c \in CityIdParams \ IdsOf(db, t) : NextCityOf(db, t, c) = 0

\* A trip of three cities, two of which share a sort key while the third has
\* another: the walk from the first visits the three.
C33_Witness ==
    \E t \in TripIds(db) :
        /\ Cardinality(CitiesOf(db, t)) = 3
        /\ Cardinality({c.sort_order : c \in CitiesOf(db, t)}) = 2
        /\ Len(WalkFrom(db, t, FirstCityOf(db, t), MaxCities + 1)) = 3
        /\ \E x, y \in CitiesOf(db, t) :
              x.sort_order = y.sort_order /\ x.id < y.id /\ NextCityOf(db, t, x.id) = y.id

(* ------------------------------- C34 ---------------------------------- *)
\* What readdir can return: the files of the directory, each once, in any order.
Listings == DistinctLists(0 .. MaxMigrations)

\* The script is started; the run before it, if any, has ended.
StartMigrations ==
    /\ procs = <<>> \/ (Len(procs) = 1 /\ procs[1].pc = "done")
    /\ \E q \in Listings : procs' = <<NewRun(q)>>
    /\ UNCHANGED <<db, now>>

\* A call the run awaits rejects.
MigrationFault ==
    /\ Len(procs) = 1
    /\ procs[1].pc # "done"
    /\ db' = MigrateFails(db, procs[1]).db
    /\ procs' = <<MigrateFails(db, procs[1]).p>>
    /\ UNCHANGED now

NextMigrate ==
    \/ StartMigrations
    \/ ProceedRace
    \/ MigrationFault

\* Runs of the migration script, one after the other.
SpecMigrate == Init /\ [][NextMigrate]_vars

\* q is in ascending order, no entry twice.
Ascending(q) == \A i, j \in 1 .. Len(q) : i < j => q[i] < q[j]

\* The run (if one has started): the migrations it has executed are its first
\* pending ones, in ascending order of file name; those it has passed are
\* recorded; and when it has failed at a migration, that migration is not
\* recorded and no later one has been executed or recorded.
RunInOrder ==
    \A k \in 1 .. Len(procs) :
        LET p == procs[k]
            n == Len(p.loc.ran)
        IN  /\ Ascending(p.loc.pending)
            /\ n <= Len(p.loc.pending)
            /\ p.loc.ran = SubSeq(p.loc.pending, 1, n)
            /\ p.loc.i > 0 =>
                  /\ n \in {p.loc.i - 1, p.loc.i}
                  /\ \A j \in 1 .. p.loc.i - 1 : p.loc.pending[j] \in db.migrations
            /\ (p.failed /\ p.loc.i > 0) =>
                  /\ p.res = ExitFailure
                  /\ \A j \in p.loc.i .. Len(p.loc.pending) : p.loc.pending[j] \notin db.migrations
            /\ (p.pc = "done" /\ ~p.failed) =>
                  /\ p.loc.ran = p.loc.pending
                  /\ \A j \in 1 .. Len(p.req.files) :
                        EndsWithSql(p.req.files[j]) => p.req.files[j] \in db.migrations

\* A step that executes a migration executes one that is not recorded; a
\* recorded migration stays recorded; and a run that has ended, failed or not,
\* executes and records nothing more.
RecordedNotExecutedAgain ==
    /\ db.migrations \subseteq db'.migrations
    /\ \A k \in 1 .. Len(procs) :
          /\ (Len(procs') = Len(procs) /\ procs'[k].req = procs[k].req
                /\ Len(procs'[k].loc.ran) > Len(procs[k].loc.ran)) =>
                    procs'[k].loc.ran[Len(procs'[k].loc.ran)] \notin db.migrations
          /\ procs[k].pc = "done" => db' = db

\* C34: across any number of runs of runMigrations, the pending migrations are
\* executed in ascending file-name order, a migration recorded in __migrations
\* is never executed again, and when a migration fails it is not recorded and
\* no later migration is executed in that run.
C34_MigrationsOnceInOrder == []RunInOrder /\ [][RecordedNotExecutedAgain]_vars

\* A run whose directory listing is not in order and holds a migration recorded
\* by an earlier run: it has skipped that one, executed and recorded the next,
\* and failed at the one after, which is not recorded.
C34_Witness ==
    /\ Len(procs) = 1
    /\ procs[1].req.files = <<3, 0, 1, 2>>
    /\ procs[1].loc.pending = <<2, 3>>
    /\ procs[1].failed
    /\ procs[1].loc.i = 2
    /\ db.migrations = {1, 2}
    /\ db.applied = {1, 2}

(* ------------------------------- C35 ---------------------------------- *)
\* An Upsert from a city of trip 1 to its successor that runs together with a
\* Reorder of all cities of the trip or the Delete of one of them: either
\* request arrives first and the other arrives before the first has responded.
RaceUpserts(d) ==
    {PutLegReq(OwnerOf(d, RaceTrip), RaceTrip, c, NextCityOf(d, RaceTrip, c), "car", Undef) :
        c \in {x \in IdsOf(d, RaceTrip) : NextCityOf(d, RaceTrip, x) # 0}}

RaceMoves(d) ==
    RaceReorders(d)
    \cup {DeleteCityReq(OwnerOf(d, RaceTrip), RaceTrip, c) : c \in IdsOf(d, RaceTrip)}

ArriveLegRace ==
    /\ RaceTrip \in TripIds(db)
    /\ \/ /\ procs = <<>>
          /\ \E r \in RaceUpserts(db) \cup RaceMoves(db) : procs' = <<NewProc(r)>>
       \/ /\ Len(procs) = 1
          /\ procs[1].pc # "done"
          /\ \E r \in IF procs[1].req.op = "leg" THEN RaceMoves(db) ELSE RaceUpserts(db) :
                procs' = Append(procs, NewProc(r))
    /\ UNCHANGED <<db, now>>

NextLegRace ==
    \/ PostTrip
    \/ PostCity
    \/ PutTransportation
    \/ ArriveLegRace
    \/ ProceedRace

SpecLegRace == Init /\ [][NextLegRace]_vars

\* Every leg row a step inserts or rewrites connects, in the state the step
\* leaves, a city to its immediate successor.
WrittenLegIsAdjacent ==
    \A l \in db'.legs \ db.legs :
        NextCityOf(db', l.trip_id, l.from_city_id) = l.to_city_id

\* C35: every leg row inserted or updated by Upsert connects a from-city to the
\* to-city that is its immediate successor at the instant of the write, also
\* when a Reorder or a city Delete on the same trip runs between the Upsert's
\* adjacency read and its write.
C35_WriteIsToSuccessor == [][WrittenLegIsAdjacent]_vars

(* ------------------------------- C36 ---------------------------------- *)
\* The state a first login saves: one trip with two cities.
ImportedState ==
    [trips |-> <<[name |-> "A",
                  cities |-> <<[name |-> "A", nights |-> 1, notes |-> Null],
                               [name |-> "B", nights |-> 2, notes |-> Null]>>]>>]

\* The requests that add cities to trip 1: an Append, and the first-login
\* import that creates the trip; and the Delete of the trip.
TripRaceAdds ==
    {PostCityReq(u, RaceTrip, " A ", Undef, Undef) : u \in DriveUsers}
    \cup {FirstLoginReq(u, ty, ImportedState) : u \in DriveUsers, ty \in {"object", Undef, Null}}

TripRaceDeletes == {DeleteTripReq(u, RaceTrip) : u \in DriveUsers}

\* Either request arrives first and the other arrives before the first has
\* responded.
ArriveTripRace ==
    /\ \/ /\ procs = <<>>
          /\ \E r \in TripRaceAdds \cup TripRaceDeletes : procs' = <<NewProc(r)>>
       \/ /\ Len(procs) = 1
          /\ procs[1].pc # "done"
          /\ \E r \in IF procs[1].req.op = "tripDelete" THEN TripRaceAdds ELSE TripRaceDeletes :
                procs' = Append(procs, NewProc(r))
    /\ UNCHANGED <<db, now>>

NextTripRace ==
    \/ PostTrip
    \/ PostCity
    \/ ArriveTripRace
    \/ ProceedRace

SpecTripRace == Init /\ [][NextTripRace]_vars

\* C36: in every reachable state every city row's owning trip exists, also
\* when an Append or a first-login import runs together with the Delete of the
\* same trip.
C36_CityTripExists ==
    \A c \in db.cities : TripRows(db, c.trip_id) # {}

\* The Delete of trip 1 and a request that adds cities to it have both been
\* accepted, and a city the other request added after the trip was deleted is
\* in storage.
C36_AddedAfterDelete ==
    /\ Len(procs) = 2
    /\ \A i \in 1 .. 2 : procs[i].pc = "done" /\ Accepted([p |-> procs[i]])
    /\ TripRows(db, RaceTrip) = {}
    /\ \E c \in db.cities : c.trip_id = RaceTrip /\ c.id = db.seq.cities

(* ------------------------------- C37 ---------------------------------- *)
\* The trips of two users, each with its cities, their order and its legs, set
\* up by the requests of each trip's owner.
PostTripAny ==
    \E u \in Users :
        LET r == PostTripReq(u, " A ", Undef) IN
        /\ CanServe(r)
        /\ db' = Served(db, r).db
        /\ UNCHANGED <<procs, now>>

PostCityOwner ==
    \E t \in TripIds(db) :
        LET r == PostCityReq(OwnerOf(db, t), t, " A ", Undef, Undef) IN
        /\ CanServe(r)
        /\ db' = Served(db, r).db
        /\ UNCHANGED <<procs, now>>

PutCitiesOrderOwner ==
    \E t \in TripIds(db) : \E q \in CompleteLists(db, t) :
        LET r == OwnerReorder(db, t, q) IN
        /\ CanServe(r)
        /\ db' = Served(db, r).db
        /\ UNCHANGED <<procs, now>>

PutTransportationOwner ==
    \E t \in TripIds(db) : \E a \in IdsOf(db, t) :
        LET r == PutLegReq(OwnerOf(db, t), t, a, NextCityOf(db, t, a), "train", Undef) IN
        /\ CanServe(r)
        /\ db' = Served(db, r).db
        /\ UNCHANGED <<procs, now>>

NextOwners ==
    \/ PostTripAny
    \/ PostCityOwner
    \/ PutCitiesOrderOwner
    \/ PutTransportationOwner

SpecOwners == Init /\ [][NextOwners]_vars

\* Request r, served in the current state, leaves the trips, and the cities
\* and legs of every trip but the one it addresses, as they are.
OtherTripsUnchanged(r) ==
    LET out == Served(db, r) IN
    /\ out.db.trips = db.trips
    /\ {c \in out.db.cities : c.trip_id # r.tripId} = {c \in db.cities : c.trip_id # r.tripId}
    /\ {l \in out.db.legs : l.trip_id # r.tripId} = {l \in db.legs : l.trip_id # r.tripId}

\* P holds of every request user u can address to trip t on a route that
\* changes a city or a leg, with every city id as the city it names.
EveryCityOrLegRequest(u, t, P(_)) ==
    /\ \A c \in CityIdParams, k \in {Undef, "2"} : P(PutCityReq(u, t, c, "B", k, Undef))
    /\ \A c \in CityIdParams : P(DeleteCityReq(u, t, c)) /\ P(DeleteLegReq(u, t, c))
    /\ \A x, y \in CityIdParams : P(PutLegReq(u, t, x, y, "car", Undef))
    /\ \A q \in DistinctLists(DriveCities) : P(ReorderReq(u, t, TRUE, Positions(q)))
    /\ P(PostCityReq(u, t, " A ", Undef, Undef))

\* C37: a city or transportation request addressed to trip T, by any user and
\* naming any city ids, those of other trips included, leaves the cities, the
\* sort keys and the legs of every other trip unchanged.
C37_OtherTripsUnchanged ==
    \A u \in Users, t \in TripIdParams : EveryCityOrLegRequest(u, t, OtherTripsUnchanged)

\* Trips of two users: the owner of one names, in requests to the own trip, a
\* city of the other user's trip, which has a leg. The Update, the Reorder, the
\* Delete and the Upsert are refused (404) and change nothing, and the Reorder
\* of the own city with the other's is refused after the own city got its key.
C37_Witness ==
    \E t, o \in TripIds(db) : \E c \in IdsOf(db, t), x \in IdsOf(db, o) :
        LET u == OwnerOf(db, t) IN
        /\ OwnerOf(db, o) # u
        /\ \E l \in db.legs : l.trip_id = o /\ l.from_city_id = x
        /\ SortKeyOf(db, c) # 1
        /\ Served(db, PutCityReq(u, t, x, "B", Undef, Undef)).p.res.status = 404
        /\ Served(db, PutCityReq(u, t, x, "B", Undef, Undef)).db = db
        /\ Served(db, DeleteCityReq(u, t, x)).p.res.status = 404
        /\ Served(db, DeleteCityReq(u, t, x)).db = db
        /\ Served(db, DeleteLegReq(u, t, x)).p.res.status = 404
        /\ Served(db, DeleteLegReq(u, t, x)).db = db
        /\ LET out == Served(db, ReorderReq(u, t, TRUE, <<[id |-> c, index |-> 1], [id |-> x, index |-> 0]>>)) IN
              /\ out.p.res.status = 404
              /\ SortKeyOf(out.db, c) = 1
              /\ CityRows(out.db, x) = CityRows(db, x)

(* ------------------------------- C38 ---------------------------------- *)
\* The from-city or the to-city of leg l has been deleted.
Stranded(d, l) == CityRows(d, l.from_city_id) = {} \/ CityRows(d, l.to_city_id) = {}

\* No request of any user to any trip, on a route that changes a city or a
\* leg and with any city id, removes or changes a stranded leg.
StrandedLegsUntouched ==
    \A l \in db.legs :
        Stranded(db, l) =>
            LET Kept(r) == l \in Served(db, r).db.legs /\ Stranded(Served(db, r).db, l)
            IN  \A u \in Users, t \in TripIdParams : EveryCityOrLegRequest(u, t, Kept)

\* A stranded leg is there, and stranded, after every step.
StrandedLegsStay ==
    \A l \in db.legs : Stranded(db, l) => l \in db'.legs /\ Stranded(db', l)

\* C38: once the from-city or the to-city of a stored leg has been deleted, no
\* later Upsert, Transportation Delete, Reorder, Append, Update or city Delete
\* removes or changes that leg row.
C38_StrandedLegStays == []StrandedLegsUntouched /\ [][StrandedLegsStay]_vars

\* The leg 1 -> 2 of a trip whose city 2 was deleted, 3 now following 1: the
\* Upsert of 1 -> 3 adds a row and the Transportation Delete from 1 finds none
\* to remove, both accepted; the same requests from 2 are refused; the leg 1 -> 2
\* remains.
C38_Witness ==
    \E t \in TripIds(db) : \E l \in db.legs :
        LET u == OwnerOf(db, t) IN
        /\ l.trip_id = t /\ l.from_city_id = 1 /\ l.to_city_id = 2
        /\ CityRows(db, 2) = {}
        /\ NextCityOf(db, t, 1) = 3
        /\ Accepted(Served(db, PutLegReq(u, t, 1, 3, "car", Undef)))
        /\ Served(db, PutLegReq(u, t, 1, 3, "car", Undef)).db.legs \ db.legs # {}
        /\ l \in Served(db, PutLegReq(u, t, 1, 3, "car", Undef)).db.legs
        /\ Accepted(Served(db, DeleteLegReq(u, t, 1)))
        /\ l \in Served(db, DeleteLegReq(u, t, 1)).db.legs
        /\ Served(db, DeleteLegReq(u, t, 2)).p.res.status = 404
        /\ Served(db, PutLegReq(u, t, 2, 3, "car", Undef)).p.res.status = 404

(* ------------------------------- C39 ---------------------------------- *)
NextSessions ==
    \/ Register
    \/ VerifyEmail
    \/ Login
    \/ PostTripWithSession
    \/ DeleteAccount

\* Accounts that are registered, verified, logged in, used and deleted.
SpecSessions == Init /\ [][NextSessions]_vars

\* User u has a row, and it is verified.
VerifiedUser(d, u) == UserRows(d, u) # {} /\ \A x \in UserRows(d, u) : x.verified = 1

\* With any cookie and at any time, getSession gives a user only if that
\* user's row exists and is verified; GET /api/me answers 200 and a trip is
\* created only for such a user; and a login is accepted only for one.
AuthenticatedIsVerified ==
    /\ \A sid \in Cookies \cup {NoCookie} : \A t \in Instants :
          LET g == GetSession(db, t, sid)
              me == Served(db, MeReq(sid, t))
              post == WithSession(db, t, sid, PostTripReq(NoUser, " A ", Undef))
          IN  /\ g.user # NoUser => VerifiedUser(db, g.user)
              /\ Accepted(me) => VerifiedUser(db, me.p.res.id)
              /\ \A x \in post.db.trips \ db.trips : VerifiedUser(db, x.user_id)
    /\ \A e \in Emails, pw \in {"secret1", "secret2"} :
          LET out == Served(db, LoginReq(e, pw, now)) IN
          /\ Accepted(out) => \E u \in db.users : u.email = e /\ u.verified = 1
          /\ out.db.sessions # db.sessions => Accepted(out)

\* A step adds a session only for a user who had a verified row before it.
SessionOnlyForVerified ==
    \A x \in db'.sessions \ db.sessions : VerifiedUser(db, x.user_id)

\* C39: no request is authenticated as a user who is unverified or deleted: a
\* session is created only by a login of a verified user, and getSession
\* accepts a session only while its user row exists.
C39_AuthenticatedUserIsVerified ==
    []AuthenticatedIsVerified /\ [][SessionOnlyForVerified]_vars

\* User 1 logged in (cookie 1) and deleted the account; the address was
\* registered again as user 2, not yet verified: cookie 1 authenticates nobody
\* and the login with the right password answers 403 and creates no session.
C39_Witness ==
    /\ db.seq.users = 2 /\ db.seq.sessions >= 1
    /\ UserRows(db, 1) = {}
    /\ \E u \in db.users : u.id = 2 /\ u.email = "a@example.com" /\ u.verified = 0
    /\ GetSession(db, now, 1).user = NoUser
    /\ Served(db, MeReq(1, now)).p.res.status = 401
    /\ Served(db, LoginReq("a@example.com", "secret1", now)).p.res.status = 403
    /\ Served(db, LoginReq("a@example.com", "secret1", now)).db.sessions = db.sessions

====
